---- MODULE Spec2Model ----
(***************************************************************************)
(* NHS Personal Demographics Service lookup client                         *)
(* (src/nursesim_rl/pds_client.py): NHS-number validation, construction    *)
(* of the client per environment, the blocking and the suspending lookup,  *)
(* and the normalisation of a FHIR Patient document.                       *)
(*                                                                         *)
(* Strings that the code indexes or scans (identifiers) are sequences of   *)
(* one-character strings; a code point outside ASCII is written as its     *)
(* name ("U+0669").  Other strings are TLA+ strings.  An Optional[...]     *)
(* value is a tagged record [t |-> ..., v |-> ...].                        *)
(***************************************************************************)
EXTENDS Integers, Sequences, FiniteSets, TLC

VARIABLES
    vcall,          \* the last standalone call of validate_nhs_number
    clients,        \* the PDSClient objects that exist
    lastInit,       \* the last call of PDSClient(...) and how it ended
    inflight,       \* suspended lookup_patient calls, awaiting client.get
    transportCalls, \* number of GET requests handed to httpx so far
    openResources,  \* httpx clients entered and not yet exited
    requestIDs,     \* the X-Request-ID of each GET handed to httpx, in order
    parsed,         \* the last standalone call of _parse_patient_response
    result,         \* the last lookup that returned or raised
    ageCall,        \* the last standalone call of _calculate_age
    served          \* the request handed to the agent and how it was answered

vars == <<vcall, clients, lastInit, inflight, transportCalls, openResources,
          requestIDs, parsed, result, ageCall, served>>

----------------------------------------------------------------------------
(* Bounds of the model *)

\* whitespace characters inserted into an identifier
MaxInserted == 2
\* PDSClient objects alive at once
MaxClients == 2
\* suspended lookup_patient calls at once
MaxInflight == 1
\* GET requests over a run
MaxCalls == 2

----------------------------------------------------------------------------
(* Characters and strings *)

AsciiDigits == {"0", "1", "2", "3", "4", "5", "6", "7", "8", "9"}

\* ARABIC-INDIC DIGIT NINE, a decimal digit (category Nd) outside ASCII
ArabicNine == "U+0669"

\* the characters Python's str.isspace() accepts, as far as the model has them
Whitespace == {" ", "\t", "\n"}

\* int(c) for one decimal digit c
DigitValue(c) ==
    CASE c = "0" -> 0 [] c = "1" -> 1 [] c = "2" -> 2 [] c = "3" -> 3
      [] c = "4" -> 4 [] c = "5" -> 5 [] c = "6" -> 6 [] c = "7" -> 7
      [] c = "8" -> 8 [] c = "9" -> 9 [] c = ArabicNine -> 9

\* the one-character strings of a sequence joined into a string
RECURSIVE ToStr(_)
ToStr(s) == IF s = <<>> THEN "" ELSE Head(s) \o ToStr(Tail(s))

\* s.strip(" "): the spaces at both ends removed, those inside kept
RECURSIVE StripSpacesAtEnds(_)
StripSpacesAtEnds(s) ==
    IF s # <<>> /\ Head(s) = " " THEN StripSpacesAtEnds(Tail(s))
    ELSE IF s # <<>> /\ s[Len(s)] = " "
      THEN StripSpacesAtEnds(SubSeq(s, 1, Len(s) - 1))
    ELSE s

\* s.replace(" ", ""): every U+0020 removed, nothing else
RECURSIVE ReplaceSpaces(_)
ReplaceSpaces(s) ==
    IF s = <<>> THEN <<>>
    ELSE IF Head(s) = " " THEN ReplaceSpaces(Tail(s))
    ELSE <<Head(s)>> \o ReplaceSpaces(Tail(s))

\* what the pattern \d matches in a str pattern: any Unicode decimal digit
MatchesBackslashD(c) == c \in AsciiDigits \cup {ArabicNine}

\* re.match(r"^\d{10}$", s): ten \d characters, then the end of the string
\* or a single "\n" that ends the string
MatchesTenDigits(s) ==
    /\ Len(s) \in {10, 11}
    /\ \A i \in 1..10 : MatchesBackslashD(s[i])
    /\ Len(s) = 11 => s[11] = "\n"

weights == <<10, 9, 8, 7, 6, 5, 4, 3, 2>>

RECURSIVE WeightedSum(_, _)
WeightedSum(s, i) ==
    IF i = 0 THEN 0 ELSE DigitValue(s[i]) * weights[i] + WeightedSum(s, i - 1)

\* the validator without the step that turns a check digit of 11 into 0
ValidateRunNoEleven(nhs_number) ==
    LET n == ReplaceSpaces(nhs_number) IN
    IF ~MatchesTenDigits(n) THEN [result |-> FALSE, checksum |-> FALSE]
    ELSE LET check_digit == 11 - (WeightedSum(n, 9) % 11)
         IN  IF check_digit = 10
               THEN [result |-> FALSE, checksum |-> TRUE]
             ELSE [result |-> check_digit = DigitValue(n[10]), checksum |-> TRUE]

\* validate_nhs_number: [result, checksum], checksum telling whether the
\* modulus 11 arithmetic ran
ValidateRun(nhs_number) ==
    LET n == ReplaceSpaces(nhs_number) IN
    IF ~MatchesTenDigits(n) THEN [result |-> FALSE, checksum |-> FALSE]
    ELSE LET total == WeightedSum(n, 9)
             remainder == total % 11
             check_digit == 11 - remainder
         IN  IF check_digit = 11
               THEN [result |-> 0 = DigitValue(n[10]), checksum |-> TRUE]
             ELSE IF check_digit = 10
               THEN [result |-> FALSE, checksum |-> TRUE]
             ELSE [result |-> check_digit = DigitValue(n[10]), checksum |-> TRUE]

validate_nhs_number(nhs_number) == ValidateRun(nhs_number).result

----------------------------------------------------------------------------
(* Inputs of the validator *)

Nhs9000000009 == <<"9", "0", "0", "0", "0", "0", "0", "0", "0", "9">>
Nhs9000000017 == <<"9", "0", "0", "0", "0", "0", "0", "0", "1", "7">>
Nhs9000000025 == <<"9", "0", "0", "0", "0", "0", "0", "0", "2", "5">>
Nhs9000000000 == <<"9", "0", "0", "0", "0", "0", "0", "0", "0", "0">>
Nhs9000000008 == <<"9", "0", "0", "0", "0", "0", "0", "0", "0", "8">>
Nhs1234567890 == <<"1", "2", "3", "4", "5", "6", "7", "8", "9", "0">>

\* every identifier 9000000abc
TenDigitInputs ==
    {<<"9", "0", "0", "0", "0", "0", "0", a, b, c>> : a, b, c \in AsciiDigits}

\* every identifier with one digit set among the first nine, the others 0,
\* and any tenth digit
OneDigitInputs ==
    { [i \in 1..10 |-> IF i = k THEN a ELSE IF i = 10 THEN c ELSE "0"] :
        k \in 1..9, a \in AsciiDigits, c \in AsciiDigits }

\* s with character c put in front of position i + 1
InsertAt(s, i, c) == SubSeq(s, 1, i) \o <<c>> \o SubSeq(s, i + 1, Len(s))

\* the strings got from those of S by inserting up to k characters of C
RECURSIVE Insertions(_, _, _)
Insertions(S, C, k) ==
    IF k = 0 THEN S
    ELSE LET T == Insertions(S, C, k - 1)
         IN  T \cup UNION {{InsertAt(s, i, c) : i \in 0..Len(s), c \in C} : s \in T}

SpacedBases == {Nhs9000000009, SubSeq(Nhs9000000009, 1, 9)}

\* wrong length, a non-digit, a trailing or embedded extra character, a
\* decimal digit outside ASCII
MalformedInputs ==
    { <<>>,
      SubSeq(Nhs1234567890, 1, 9),
      Nhs1234567890 \o <<"1">>,
      SubSeq(Nhs9000000009, 1, 9) \o <<"A">>,
      <<"A", "B", "C", "D", "E", "F", "G", "H", "I", "J">>,
      Nhs9000000009 \o <<"A">>,
      Nhs9000000009 \o <<"\n">>,
      Nhs9000000009 \o <<"\n", "\n">>,
      SubSeq(Nhs9000000009, 1, 9) \o <<ArabicNine>>,
      SubSeq(Nhs9000000009, 1, 5) \o <<"-">> \o SubSeq(Nhs9000000009, 6, 10) }

ValidatorInputs ==
    TenDigitInputs \cup OneDigitInputs \cup {Nhs1234567890} \cup MalformedInputs
        \cup Insertions(SpacedBases, Whitespace, MaxInserted)

NoCall == [input |-> <<>>, called |-> FALSE, result |-> FALSE, checksum |-> FALSE]

\* a standalone call of the static method on the input drawn
ValidateCall ==
    /\ ~vcall.called
    /\ vcall' = [input |-> vcall.input, called |-> TRUE,
                 result |-> validate_nhs_number(vcall.input),
                 checksum |-> ValidateRun(vcall.input).checksum]
    /\ UNCHANGED <<ageCall, served, clients, lastInit, inflight, transportCalls, openResources,
                   requestIDs,
                   parsed, result>>

----------------------------------------------------------------------------
(* Optional and loosely typed values *)

None == [t |-> "None", v |-> <<>>]
Absent == [t |-> "absent", v |-> <<>>]
\* a str the code scans: a sequence of characters
StrV(s) == [t |-> "str", v |-> s]
\* a str the code only passes on
TextV(s) == [t |-> "text", v |-> s]
IntV(n) == [t |-> "int", v |-> n]
BoolV(b) == [t |-> "bool", v |-> b]
ListV(l) == [t |-> "list", v |-> l]
DictV(d) == [t |-> "dict", v |-> d]

\* d.get(key) for a key the model holds as a tagged value: None when absent
Get(x) == IF x.t = "absent" THEN None ELSE x
\* d.get(key, default)
GetOr(x, default) == IF x.t = "absent" THEN default ELSE x

\* Python truthiness of a tagged value
Truthy(x) ==
    CASE x.t \in {"None", "absent"} -> FALSE
      [] x.t = "str" -> x.v # <<>>
      [] x.t = "text" -> x.v # ""
      [] x.t = "list" -> x.v # <<>>
      [] x.t = "int" -> x.v # 0
      [] x.t = "bool" -> x.v
      [] OTHER -> TRUE

----------------------------------------------------------------------------
(* Construction of a client *)

SANDBOX == "sandbox"
INTEGRATION == "int"
PRODUCTION == "prod"
PDSEnvironment == {SANDBOX, INTEGRATION, PRODUCTION}

BASE_URLS(environment) ==
    CASE environment = SANDBOX -> "https://sandbox.api.service.nhs.uk"
      [] environment = INTEGRATION -> "https://int.api.service.nhs.uk"
      [] environment = PRODUCTION -> "https://api.service.nhs.uk"

API_PATH == "/personal-demographics/FHIR/R4/Patient"

\* the default of the timeout parameter, in seconds
DefaultTimeout == 30

Tokens == {None, TextV(""), TextV("test-token")}
Timeouts == {DefaultTimeout, 5}


\* the constructor without the check of the token
PDSClientInitUnchecked(environment, access_token, timeout) ==
    [raised |-> FALSE, type |-> "", msg |-> "",
     self |-> [environment |-> environment, access_token |-> access_token,
               timeout |-> timeout, base_url |-> BASE_URLS(environment)]]

\* a constructor that refuses a missing token only
PDSClientInitNoneOnly(environment, access_token, timeout) ==
    LET self == [environment |-> environment,
                 access_token |-> access_token,
                 timeout |-> timeout,
                 base_url |-> BASE_URLS(environment)]
    IN  IF environment # SANDBOX /\ access_token = None
          THEN [raised |-> TRUE, type |-> "ValueError",
                msg |-> "Access token required for " \o environment
                        \o " environment. Use PDSEnvironment.SANDBOX for unauthenticated testing.",
                self |-> self]
          ELSE [raised |-> FALSE, type |-> "", msg |-> "", self |-> self]

\* PDSClient.__init__: the object, or the ValueError it raises
PDSClientInit(environment, access_token, timeout) ==
    LET self == [environment |-> environment,
                 access_token |-> access_token,
                 timeout |-> timeout,
                 base_url |-> BASE_URLS(environment)]
    IN  IF environment # SANDBOX /\ ~Truthy(access_token)
          THEN [raised |-> TRUE, type |-> "ValueError",
                msg |-> "Access token required for " \o environment
                        \o " environment. Use PDSEnvironment.SANDBOX for unauthenticated testing.",
                self |-> self]
          ELSE [raised |-> FALSE, type |-> "", msg |-> "", self |-> self]

NoInit == [called |-> FALSE, environment |-> SANDBOX, access_token |-> None,
           timeout |-> DefaultTimeout, raised |-> FALSE, type |-> "", msg |-> ""]

\* client = PDSClient(environment, access_token, timeout)
Construct ==
    /\ \E environment \in PDSEnvironment, access_token \in Tokens,
          timeout \in Timeouts :
          LET r == PDSClientInit(environment, access_token, timeout) IN
          /\ lastInit' = [called |-> TRUE, environment |-> environment,
                          access_token |-> access_token, timeout |-> timeout,
                          raised |-> r.raised, type |-> r.type, msg |-> r.msg]
          /\ IF r.raised THEN clients' = clients
             ELSE /\ Cardinality(clients \cup {r.self}) <= MaxClients
                  /\ clients' = clients \cup {r.self}
    /\ UNCHANGED <<ageCall, served, vcall, inflight, transportCalls, openResources, requestIDs, parsed,
                   result>>

----------------------------------------------------------------------------
(* str methods the normaliser uses, on sequences of characters *)

LowerCase == <<"a", "b", "c", "d", "e", "f", "g", "h", "i", "j", "k", "l", "m",
               "n", "o", "p", "q", "r", "s", "t", "u", "v", "w", "x", "y", "z">>
UpperCase == <<"A", "B", "C", "D", "E", "F", "G", "H", "I", "J", "K", "L", "M",
               "N", "O", "P", "Q", "R", "S", "T", "U", "V", "W", "X", "Y", "Z">>

Range(f) == {f[i] : i \in DOMAIN f}
IndexIn(f, c) == CHOOSE i \in DOMAIN f : f[i] = c

\* c.upper() and c.lower() of one character
Upper(c) == IF c \in Range(LowerCase) THEN UpperCase[IndexIn(LowerCase, c)] ELSE c
Lower(c) == IF c \in Range(UpperCase) THEN LowerCase[IndexIn(UpperCase, c)] ELSE c

\* s.capitalize(): the first character upper-cased, the others lower-cased
Capitalize(s) ==
    [i \in DOMAIN s |-> IF i = 1 THEN Upper(s[i]) ELSE Lower(s[i])]

\* s.strip(): whitespace removed at both ends
RECURSIVE LStrip(_)
LStrip(s) ==
    IF s # <<>> /\ Head(s) \in Whitespace THEN LStrip(Tail(s)) ELSE s
RECURSIVE RStrip(_)
RStrip(s) ==
    IF s # <<>> /\ s[Len(s)] \in Whitespace
      THEN RStrip(SubSeq(s, 1, Len(s) - 1)) ELSE s
Strip(s) == RStrip(LStrip(s))

\* sep.join(parts)
RECURSIVE Join(_, _)
Join(sep, parts) ==
    IF parts = <<>> THEN <<>>
    ELSE IF Len(parts) = 1 THEN parts[1]
    ELSE parts[1] \o sep \o Join(sep, Tail(parts))

\* s.split(sep) for a one-character sep
RECURSIVE Split(_, _)
Split(s, sep) ==
    IF \A i \in DOMAIN s : s[i] # sep THEN <<s>>
    ELSE LET k == CHOOSE i \in DOMAIN s :
                      s[i] = sep /\ \A j \in 1..i - 1 : s[j] # sep
         IN  <<SubSeq(s, 1, k - 1)>> \o Split(SubSeq(s, k + 1, Len(s)), sep)

\* filter(None, parts): the non-empty ones
RECURSIVE FilterNonEmpty(_)
FilterNonEmpty(parts) ==
    IF parts = <<>> THEN <<>>
    ELSE IF Head(parts) = <<>> THEN FilterNonEmpty(Tail(parts))
    ELSE <<Head(parts)>> \o FilterNonEmpty(Tail(parts))

\* whether int(s) returns: decimal digits, whitespace around them allowed
IntParses(s) ==
    LET d == Strip(s) IN d # <<>> /\ \A i \in DOMAIN d : MatchesBackslashD(d[i])

RECURSIVE DigitsValue(_)
DigitsValue(d) ==
    IF d = <<>> THEN 0
    ELSE 10 * DigitsValue(SubSeq(d, 1, Len(d) - 1)) + DigitValue(d[Len(d)])

\* int(s) where it parses
IntOf(s) == DigitsValue(Strip(s))

----------------------------------------------------------------------------
(* datetime.date *)

IsLeap(y) == (y % 4 = 0 /\ y % 100 # 0) \/ y % 400 = 0

DaysInMonth(y, m) ==
    IF m = 2 THEN (IF IsLeap(y) THEN 29 ELSE 28)
    ELSE IF m \in {4, 6, 9, 11} THEN 30 ELSE 31

\* whether date(y, m, d) returns rather than raising ValueError
DateValid(y, m, d) ==
    /\ y \in 1..9999
    /\ m \in 1..12
    /\ d \in 1..DaysInMonth(y, m)

\* (m1, d1) < (m2, d2), as tuples compare
TupleLess(m1, d1, m2, d2) == m1 < m2 \/ (m1 = m2 /\ d1 < d2)

\* an age that is the difference of the years, whatever the month and day
CalculateAgeNoAdjust(date_of_birth, today) ==
    LET parts == Split(date_of_birth, "-") IN
    IF ~IntParses(parts[1]) THEN None
    ELSE IF Len(parts) < 2 THEN None
    ELSE IF ~IntParses(parts[2]) THEN None
    ELSE IF Len(parts) < 3 THEN None
    ELSE IF ~IntParses(parts[3]) THEN None
    ELSE LET y == IntOf(parts[1])
             m == IntOf(parts[2])
             d == IntOf(parts[3])
         IN  IF ~DateValid(y, m, d) THEN None
             ELSE IntV(today.year - y)

\* _calculate_age on a str, today being date.today(): an int, or None where
\* the ValueError or IndexError is caught
CalculateAgeOfStr(date_of_birth, today) ==
    LET parts == Split(date_of_birth, "-") IN
    IF ~IntParses(parts[1]) THEN None
    ELSE IF Len(parts) < 2 THEN None
    ELSE IF ~IntParses(parts[2]) THEN None
    ELSE IF Len(parts) < 3 THEN None
    ELSE IF ~IntParses(parts[3]) THEN None
    ELSE LET y == IntOf(parts[1])
             m == IntOf(parts[2])
             d == IntOf(parts[3])
         IN  IF ~DateValid(y, m, d) THEN None
             ELSE LET age == today.year - y IN
                  IF TupleLess(today.month, today.day, m, d)
                    THEN IntV(age - 1) ELSE IntV(age)

\* the decimal digit of n, for n in 0..9
DigitChar(n) == CHOOSE c \in AsciiDigits : DigitValue(c) = n

\* a date written YYYY-MM-DD, the form the registry gives birthDate in
FormatDate(y, m, d) ==
    <<DigitChar(y \div 1000), DigitChar((y \div 100) % 10),
      DigitChar((y \div 10) % 10), DigitChar(y % 10), "-",
      DigitChar(m \div 10), DigitChar(m % 10), "-",
      DigitChar(d \div 10), DigitChar(d % 10)>>

\* the birth dates of the standalone calls: days of the calendar around the
\* turn of the year, the end of February and the days of AgeTodays
BirthDates ==
    {b \in [year : {1980, 2000, 2024, 2026}, month : {1, 2, 3, 11, 12},
            day : {1, 6, 7, 28, 29, 31}] : DateValid(b.year, b.month, b.day)}

\* the values of date.today() of the standalone calls
AgeTodays ==
    {[year |-> 2026, month |-> 11, day |-> 6],
     [year |-> 2024, month |-> 2, day |-> 29],
     [year |-> 2025, month |-> 2, day |-> 28],
     [year |-> 2026, month |-> 12, day |-> 31],
     [year |-> 2026, month |-> 1, day |-> 1]}

NoAge == [called |-> FALSE, date_of_birth |-> <<>>,
          today |-> [year |-> 2026, month |-> 11, day |-> 6], age |-> None]

\* age = PDSClient._calculate_age(date_of_birth)
CalculateAge ==
    /\ ~ageCall.called
    /\ ageCall' = [ageCall EXCEPT
                      !.called = TRUE,
                      !.age = CalculateAgeOfStr(ageCall.date_of_birth, ageCall.today)]
    /\ UNCHANGED <<vcall, clients, lastInit, inflight, transportCalls,
                   openResources, requestIDs, parsed, result, served>>

----------------------------------------------------------------------------
(* The FHIR Patient document, as response.json() returns it.  Every key    *)
(* the normaliser reads is a field; a key the document lacks is Absent.    *)

Jane == <<"J", "a", "n", "e">>
Smith == <<"S", "m", "i", "t", "h">>
Jayne == <<"J", "a", "y", "n", "e">>
Smythe == <<"S", "m", "y", "t", "h", "e">>
Female == <<"f", "e", "m", "a", "l", "e">>
Dob19800101 == <<"1", "9", "8", "0", "-", "0", "1", "-", "0", "1">>
Dob19901231 == <<"1", "9", "9", "0", "-", "1", "2", "-", "3", "1">>
DobUnparsable == <<"1", "9", "8", "0", "-", "x", "x">>
Dob19800230 == <<"1", "9", "8", "0", "-", "0", "2", "-", "3", "0">>
DobYearOnly == <<"1", "9", "8", "0">>
DobFourParts == <<"1", "9", "8", "0", "-", "0", "1", "-", "0", "1", "-", "0", "7">>
SpaceJane == <<" ", "J", "a", "n", "e">>
FEMALE == <<"F", "E", "M", "A", "L", "E">>
Leeds == <<"L", "e", "e", "d", "s">>
Postcode == <<"L", "S", "1">>
HighStreet == <<"1", " ", "H", "i", "g", "h", " ", "S", "t">>

Label(code) == DictV([code |-> code])
Meta(security) == DictV([security |-> security])
NameEntry(use, given, family) == [use |-> use, given |-> given, family |-> family]
AddressEntry(use, line, city, postalCode) ==
    [use |-> use, line |-> line, city |-> city, postalCode |-> postalCode]
GPEntry(identifier, display) == [identifier |-> identifier, display |-> display]

MetaValues ==
    { Absent,
      None,
      Meta(Absent),
      Meta(ListV(<<>>)),
      Meta(ListV(<<Label(TextV("R"))>>)),
      Meta(ListV(<<Label(TextV("U"))>>)),
      Meta(ListV(<<Label(Absent)>>)),
      Meta(ListV(<<Label(TextV("U")), Label(TextV("R"))>>)) }

NameValues ==
    { Absent,
      ListV(<<NameEntry(TextV("official"), ListV(<<Jayne>>), StrV(Smythe))>>),
      ListV(<<NameEntry(TextV("usual"), ListV(<<Jane>>), StrV(Smith)),
              NameEntry(TextV("official"), ListV(<<Jayne, Jane>>), StrV(Smythe))>>),
      ListV(<<NameEntry(TextV("usual"), ListV(<<Jane>>), StrV(Smith)),
              NameEntry(TextV("nickname"), ListV(<<Jayne>>), StrV(Smythe))>>),
      ListV(<<NameEntry(TextV("official"), Absent, StrV(Smith))>>),
      ListV(<<NameEntry(TextV("usual"), ListV(<<SpaceJane>>), StrV(Smith))>>) }

BirthDateValues ==
    {Absent, StrV(Dob19800101), StrV(Dob19901231), StrV(DobUnparsable),
     IntV(19800101), StrV(<<>>), StrV(Dob19800230), StrV(DobYearOnly),
     StrV(DobFourParts)}

GenderValues == {Absent, None, StrV(Female), StrV(FEMALE)}

DeceasedBooleanValues == {Absent, BoolV(TRUE), BoolV(FALSE)}
DeceasedDateTimeValues == {Absent, None, TextV("2020-01-01T00:00:00+00:00")}

AddressValues ==
    { Absent,
      ListV(<<AddressEntry(TextV("home"), ListV(<<HighStreet>>), StrV(Leeds),
                           StrV(Postcode))>>) }

GPValues ==
    { Absent,
      ListV(<<GPEntry(DictV([value |-> TextV("Y12345")]), TextV("Leeds Surgery"))>>) }

Doc(meta, name, birthDate, gender, address, generalPractitioner) ==
    [meta |-> meta, name |-> name, birthDate |-> birthDate, gender |-> gender,
     address |-> address, generalPractitioner |-> generalPractitioner,
     deceasedBoolean |-> Absent, deceasedDateTime |-> Absent]

\* doc with its two deceased[x] keys set
WithDeceased(doc, deceasedBoolean, deceasedDateTime) ==
    [doc EXCEPT !.deceasedBoolean = deceasedBoolean,
                !.deceasedDateTime = deceasedDateTime]

\* the standard document of the tests: official name, gender, birth date
StandardName ==
    ListV(<<NameEntry(TextV("official"), ListV(<<Jayne>>), StrV(Smythe))>>)

\* documents that differ from the standard one in the security labels and
\* in at most one group of fields
Documents ==
    UNION { {Doc(m, n, StrV(Dob19800101), StrV(Female), Absent, Absent) : n \in NameValues}
            \cup {Doc(m, StandardName, b, StrV(Female), Absent, Absent) : b \in BirthDateValues}
            \cup {Doc(m, StandardName, StrV(Dob19800101), g, Absent, Absent) : g \in GenderValues}
            \cup {Doc(m, StandardName, StrV(Dob19800101), StrV(Female), a, p) :
                     a \in AddressValues, p \in GPValues}
            \cup {WithDeceased(Doc(m, StandardName, StrV(Dob19800101),
                                    StrV(Female), Absent, Absent), db, dt) :
                     db \in DeceasedBooleanValues, dt \in DeceasedDateTimeValues}
          : m \in MetaValues }

EmptyDoc == Doc(Absent, Absent, Absent, Absent, Absent, Absent)

----------------------------------------------------------------------------
(* _parse_patient_response *)

\* the body of a response: whether it parses as JSON, and the document
Body(json, doc) == [json |-> json, doc |-> doc]
NoBody == Body(FALSE, EmptyDoc)

\* an exception: its class, its message and, for httpx.HTTPStatusError, the
\* status and body of the response it holds
NoError == [type |-> "", msg |-> "", status |-> 0, body |-> NoBody]
Error(type, msg) == [type |-> type, msg |-> msg, status |-> 0, body |-> NoBody]

\* the first entry of the list whose use is the wanted one, else the first
\* entry: next((n for n in entries if n.get("use") == use), entries[0])
Preferred(entries, use) ==
    IF \E i \in DOMAIN entries : Get(entries[i].use) = TextV(use)
      THEN entries[CHOOSE i \in DOMAIN entries :
                       /\ Get(entries[i].use) = TextV(use)
                       /\ \A j \in 1..i - 1 : Get(entries[j].use) # TextV(use)]
      ELSE entries[1]

\* the name taken from the first entry whatever its use
ExtractNameFirst(data) ==
    LET names == GetOr(data.name, ListV(<<>>)) IN
    IF ~Truthy(names)
      THEN [raised |-> FALSE, error |-> NoError, given_name |-> None,
            family_name |-> None, full_name |-> None]
      ELSE LET official_name == names.v[1]
               given_name == Join(<<" ">>, GetOr(official_name.given, ListV(<<>>)).v)
               family_name == GetOr(official_name.family, StrV(<<>>)).v
           IN  [raised |-> FALSE, error |-> NoError,
                given_name |-> StrV(given_name),
                family_name |-> StrV(family_name),
                full_name |-> StrV(Strip(given_name \o <<" ">> \o family_name))]

\* lines 188-202: the name
ExtractName(data) ==
    LET names == GetOr(data.name, ListV(<<>>)) IN
    IF ~Truthy(names)
      THEN [raised |-> FALSE, error |-> NoError, given_name |-> None,
            family_name |-> None, full_name |-> None]
      ELSE LET official_name == Preferred(names.v, "official")
               given_name == Join(<<" ">>, GetOr(official_name.given, ListV(<<>>)).v)
               family_name == GetOr(official_name.family, StrV(<<>>)).v
           IN  [raised |-> FALSE, error |-> NoError,
                given_name |-> StrV(given_name),
                family_name |-> StrV(family_name),
                full_name |-> StrV(Strip(given_name \o <<" ">> \o family_name))]

\* lines 204-206: the date of birth and the age
ExtractBirthDate(data, today) ==
    LET date_of_birth == Get(data.birthDate) IN
    IF ~Truthy(date_of_birth)
      THEN [raised |-> FALSE, error |-> NoError,
            date_of_birth |-> date_of_birth, age |-> None]
    ELSE IF date_of_birth.t # "str"
      THEN [raised |-> TRUE,
            error |-> Error("AttributeError",
                            "'" \o date_of_birth.t \o "' object has no attribute 'split'"),
            date_of_birth |-> date_of_birth, age |-> None]
    ELSE [raised |-> FALSE, error |-> NoError, date_of_birth |-> date_of_birth,
          age |-> CalculateAgeOfStr(date_of_birth.v, today)]

\* lines 208-209: the gender
ExtractGender(data) ==
    LET gender == GetOr(data.gender, StrV(<<>>)) IN
    IF gender.t # "str"
      THEN [raised |-> TRUE,
            error |-> Error("AttributeError",
                            "'NoneType' object has no attribute 'capitalize'"),
            gender |-> None]
      ELSE [raised |-> FALSE, error |-> NoError,
            gender |-> StrV(Capitalize(gender.v))]

\* lines 211-223: the address
ExtractAddress(data) ==
    LET addresses == GetOr(data.address, ListV(<<>>)) IN
    IF ~Truthy(addresses)
      THEN [raised |-> FALSE, error |-> NoError, address |-> None,
            postcode |-> None]
      ELSE LET home_addr == Preferred(addresses.v, "home")
               address_lines == GetOr(home_addr.line, ListV(<<>>)).v
               city == GetOr(home_addr.city, StrV(<<>>)).v
               postcode == GetOr(home_addr.postalCode, StrV(<<>>)).v
           IN  [raised |-> FALSE, error |-> NoError,
                address |-> StrV(Join(<<",", " ">>,
                                 FilterNonEmpty(address_lines \o <<city, postcode>>))),
                postcode |-> StrV(postcode)]

\* lines 225-234: the GP practice
ExtractGP(data) ==
    LET gps == GetOr(data.generalPractitioner, ListV(<<>>)) IN
    IF ~Truthy(gps)
      THEN [raised |-> FALSE, error |-> NoError, gp_practice_ods |-> None,
            gp_practice_name |-> None]
      ELSE LET gp == gps.v[1] IN
           [raised |-> FALSE, error |-> NoError,
            gp_practice_ods |->
                IF gp.identifier.t # "absent" THEN Get(gp.identifier.v.value)
                ELSE None,
            gp_practice_name |->
                IF gp.display.t # "absent" THEN Get(gp.display) ELSE None]

\* lines 237-241: whether the security labels hold the code "R"
IsRestricted(data) ==
    LET meta == GetOr(data.meta, DictV([security |-> Absent])) IN
    /\ meta.v.security.t # "absent"
    /\ \E i \in DOMAIN meta.v.security.v :
          Get(meta.v.security.v[i].v.code) = TextV("R")

RestrictedError == Error("ValueError", "Access denied: Restricted patient record")

\* the check with the flag computed and the raise left out
CheckRestrictedFlagOnly(nhs_number, data) ==
    [raised |-> FALSE, error |-> NoError,
     is_restricted |-> data.meta.t = "dict" /\ IsRestricted(data)]

\* lines 236-244: the check for a restricted record
CheckRestricted(nhs_number, data) ==
    IF GetOr(data.meta, DictV([security |-> Absent])).t # "dict"
      THEN [raised |-> TRUE,
            error |-> Error("TypeError", "argument of type 'NoneType' is not iterable"),
            is_restricted |-> FALSE]
    ELSE IF IsRestricted(data)
      THEN [raised |-> TRUE, error |-> RestrictedError, is_restricted |-> TRUE]
    ELSE [raised |-> FALSE, error |-> NoError, is_restricted |-> FALSE]

\* the flag read from deceasedBoolean alone
ExtractDeceasedBooleanOnly(data) == GetOr(data.deceasedBoolean, BoolV(FALSE))

\* lines 246-248: the deceased flag, `a or b`
ExtractDeceased(data) ==
    LET flag == GetOr(data.deceasedBoolean, BoolV(FALSE)) IN
    IF Truthy(flag) THEN flag
    ELSE BoolV(Get(data.deceasedDateTime) # None)

NoRecord == [nhs_number |-> <<>>, exists |-> FALSE]

\* the steps of the normaliser in the order the code runs them
ParseOrder ==
    <<"name", "birthDate", "gender", "address", "generalPractitioner",
      "security", "deceased", "construct">>

\* a normaliser that hands over the fields without the document
ParsePatientResponseDiscards(nhs_number, data, today) ==
    LET n == ExtractName(data)
        b == ExtractBirthDate(data, today)
        g == ExtractGender(data)
        a == ExtractAddress(data)
        p == ExtractGP(data)
        r == CheckRestricted(nhs_number, data)
        Raise(e, k) == [kind |-> "error", error |-> e, record |-> NoRecord,
                        steps |-> SubSeq(ParseOrder, 1, k)]
    IN  IF n.raised THEN Raise(n.error, 1)
        ELSE IF b.raised THEN Raise(b.error, 2)
        ELSE IF g.raised THEN Raise(g.error, 3)
        ELSE IF a.raised THEN Raise(a.error, 4)
        ELSE IF p.raised THEN Raise(p.error, 5)
        ELSE IF r.raised THEN Raise(r.error, 6)
        ELSE [kind |-> "record", error |-> NoError,
              record |-> [exists |-> TRUE,
                          nhs_number |-> nhs_number,
                          given_name |-> n.given_name,
                          family_name |-> n.family_name,
                          full_name |-> n.full_name,
                          date_of_birth |-> b.date_of_birth,
                          gender |-> g.gender,
                          age |-> b.age,
                          address |-> a.address,
                          postcode |-> a.postcode,
                          gp_practice_ods |-> p.gp_practice_ods,
                          gp_practice_name |-> p.gp_practice_name,
                          is_deceased |-> ExtractDeceased(data),
                          is_restricted |-> r.is_restricted,
                          raw_response |-> None],
              steps |-> ParseOrder]

\* _parse_patient_response: the record returned or the error raised, with
\* the steps that ran
ParsePatientResponse(nhs_number, data, today) ==
    LET n == ExtractName(data)
        b == ExtractBirthDate(data, today)
        g == ExtractGender(data)
        a == ExtractAddress(data)
        p == ExtractGP(data)
        r == CheckRestricted(nhs_number, data)
        Raise(e, k) == [kind |-> "error", error |-> e, record |-> NoRecord,
                        steps |-> SubSeq(ParseOrder, 1, k)]
    IN  IF n.raised THEN Raise(n.error, 1)
        ELSE IF b.raised THEN Raise(b.error, 2)
        ELSE IF g.raised THEN Raise(g.error, 3)
        ELSE IF a.raised THEN Raise(a.error, 4)
        ELSE IF p.raised THEN Raise(p.error, 5)
        ELSE IF r.raised THEN Raise(r.error, 6)
        ELSE [kind |-> "record", error |-> NoError,
              record |-> [exists |-> TRUE,
                          nhs_number |-> nhs_number,
                          given_name |-> n.given_name,
                          family_name |-> n.family_name,
                          full_name |-> n.full_name,
                          date_of_birth |-> b.date_of_birth,
                          gender |-> g.gender,
                          age |-> b.age,
                          address |-> a.address,
                          postcode |-> a.postcode,
                          gp_practice_ods |-> p.gp_practice_ods,
                          gp_practice_name |-> p.gp_practice_name,
                          is_deceased |-> ExtractDeceased(data),
                          is_restricted |-> r.is_restricted,
                          raw_response |-> data],
              steps |-> ParseOrder]

----------------------------------------------------------------------------
(* The transport (httpx) and the two lookups *)

\* what client.get returns: a status and a body that parses as JSON or not;
\* status 0 stands for client.get raising (connection error, timeout)
Response(status, json, doc) == [status |-> status, json |-> json, doc |-> doc]
NoResponse == Response(0, FALSE, EmptyDoc)

SuccessStatuses == {200}
ErrorStatuses == {301, 404, 500}

\* the standard document: no security labels, well typed fields
StandardDoc ==
    Doc(Absent, StandardName, StrV(Dob19800101), StrV(Female), Absent, Absent)

\* the documents the registry answers a lookup with: the standard one, and
\* restricted and unrestricted ones with well and ill typed fields
LookupDocuments ==
    { Doc(m, StandardName, b, g, Absent, Absent) :
        m \in {Absent, Meta(ListV(<<Label(TextV("R"))>>))},
        b \in {StrV(Dob19800101), IntV(19800101)},
        g \in {StrV(Female)} }
      \cup { Doc(m, Absent, StrV(Dob19800101), None, Absent, Absent) :
               m \in {Meta(ListV(<<Label(TextV("R"))>>)),
                      Meta(ListV(<<Label(TextV("U"))>>))} }
      \cup { Doc(m, StandardName, StrV(Dob19800101), StrV(Female), Absent, Absent) :
               m \in {Meta(Absent), Meta(ListV(<<>>))} }

\* responses with a status that is not a success: without a JSON body, and
\* with a body that is a whole patient document
ErrorResponses ==
    {Response(st, FALSE, EmptyDoc) : st \in ErrorStatuses}
        \cup {Response(500, TRUE, StandardDoc)}

Responses ==
    {Response(st, TRUE, d) : st \in SuccessStatuses, d \in LookupDocuments}
        \cup {Response(st, FALSE, EmptyDoc) : st \in SuccessStatuses}
        \cup ErrorResponses
        \cup {NoResponse}

\* response.is_success
IsSuccess(response) == response.status \in 200..299

\* date.today() at the time of a lookup
Todays == {[year |-> 2026, month |-> 11, day |-> 6]}

\* uuid.uuid4(): the value of the n-th draw; the generator gives every draw a
\* value of its own
Uuid4(n) == n

\* headers that carry one X-Request-ID whatever the draw
GetHeadersStoredID(self, uuid4) ==
    [Accept |-> "application/fhir+json",
     XRequestID |-> Uuid4(1),
     Authorization |-> IF Truthy(self.access_token)
                         THEN TextV("Bearer " \o self.access_token.v)
                         ELSE Absent]

\* headers that never carry the token
GetHeadersNoAuth(self, uuid4) ==
    [Accept |-> "application/fhir+json",
     XRequestID |-> uuid4,
     Authorization |-> Absent]

\* _get_headers, uuid4 being the value uuid.uuid4() returns
GetHeaders(self, uuid4) ==
    [Accept |-> "application/fhir+json",
     XRequestID |-> uuid4,
     Authorization |-> IF Truthy(self.access_token)
                         THEN TextV("Bearer " \o self.access_token.v)
                         ELSE Absent]

NoRequest == [method |-> "", url |-> "",
              headers |-> GetHeaders([access_token |-> None], 0),
              timeout |-> 0]

\* a request that always goes to the sandbox host
BuildRequestSandbox(self, nhs_number, uuid4) ==
    [method |-> "GET",
     url |-> BASE_URLS(SANDBOX) \o API_PATH \o "/" \o ToStr(nhs_number),
     headers |-> GetHeaders(self, uuid4),
     timeout |-> self.timeout]

\* the GET request of lookup_patient_sync: lines 174-177
BuildRequest(self, nhs_number, uuid4) ==
    [method |-> "GET",
     url |-> self.base_url \o API_PATH \o "/" \o ToStr(nhs_number),
     headers |-> GetHeaders(self, uuid4),
     timeout |-> self.timeout]

\* the GET request of lookup_patient: lines 156-159
BuildRequestAsync(self, nhs_number, uuid4) ==
    [method |-> "GET",
     url |-> self.base_url \o API_PATH \o "/" \o ToStr(nhs_number),
     headers |-> GetHeaders(self, uuid4),
     timeout |-> self.timeout]

InvalidNumberError(nhs_number) ==
    Error("ValueError", "Invalid NHS number: " \o ToStr(nhs_number))

\* what response.raise_for_status() raises: the error holds the response
HTTPStatusError(response) ==
    [type |-> "HTTPStatusError", msg |-> "status error response",
     status |-> response.status, body |-> Body(response.json, response.doc)]

\* a lookup that ends by raising e: no step of the normaliser has run
Raised(e) == [kind |-> "error", error |-> e, record |-> NoRecord, steps |-> <<>>]

\* a lookup that reads the body whatever the status
HandleResponseAnyStatus(self, nhs_number, response, today) ==
    IF response.status = 0
      THEN Raised(Error("TransportError", "request failed"))
    ELSE IF ~response.json
      THEN Raised(Error("JSONDecodeError", "body is not JSON"))
    ELSE ParsePatientResponse(nhs_number, response.doc, today)

\* lines 177-181: what lookup_patient_sync does with the outcome of client.get
HandleResponse(self, nhs_number, response, today) ==
    IF response.status = 0
      THEN Raised(Error("TransportError", "request failed"))
    ELSE IF ~IsSuccess(response)
      THEN Raised(HTTPStatusError(response))
    ELSE IF ~response.json
      THEN Raised(Error("JSONDecodeError", "body is not JSON"))
    ELSE ParsePatientResponse(nhs_number, response.doc, today)

\* lines 159-163: what lookup_patient does with the outcome of client.get
HandleResponseAsync(self, nhs_number, response, today) ==
    IF response.status = 0
      THEN Raised(Error("TransportError", "request failed"))
    ELSE IF ~IsSuccess(response)
      THEN Raised(HTTPStatusError(response))
    ELSE IF ~response.json
      THEN Raised(Error("JSONDecodeError", "body is not JSON"))
    ELSE ParsePatientResponse(nhs_number, response.doc, today)

\* a finished lookup: how it was called, what the transport did, how it ended
Finished(mode, self, input, request, response, outcome) ==
    [done |-> TRUE, mode |-> mode, self |-> self, input |-> input,
     requests |-> IF request = NoRequest THEN 0 ELSE 1,
     request |-> request, response |-> response,
     kind |-> outcome.kind, error |-> outcome.error, record |-> outcome.record,
     steps |-> outcome.steps]

NoResult ==
    [done |-> FALSE, mode |-> "", self |-> [environment |-> SANDBOX],
     input |-> <<>>, requests |-> 0, request |-> NoRequest,
     response |-> NoResponse, kind |-> "", error |-> NoError,
     record |-> NoRecord, steps |-> <<>>]

Nhs900_000_0009 == <<"9", "0", "0", " ", "0", "0", "0", " ", "0", "0", "0", "9">>

\* identifiers handed to a lookup
LookupInputs ==
    {Nhs9000000017, Nhs900_000_0009, Nhs1234567890}

\* a lookup that goes on whatever the validator says
RejectsNothing(nhs_number) == FALSE

\* lines 153 and 171: whether the lookup stops at the validator
Rejects(nhs_number) == ~validate_nhs_number(nhs_number)

\* a lookup's outcome when the validator rejects the identifier
InvalidOutcome(nhs_number) == Raised(InvalidNumberError(nhs_number))

\* `with httpx.Client(...)` / `async with httpx.AsyncClient(...)`: entering
\* the block opens a transport resource, leaving it by any path closes it
Enter(n) == n + 1
Exit(n) == n - 1

\* the next value uuid.uuid4() returns
NextUuid4 == Uuid4(Len(requestIDs) + 1)

\* lookup_patient_sync(input) on self, the transport answering with response:
\* the finished call
lookup_patient_sync(self, input, uuid4, response, today) ==
    LET nhs_number == ReplaceSpaces(input) IN
    IF Rejects(nhs_number)
      THEN Finished("sync", self, input, NoRequest, NoResponse,
                    InvalidOutcome(nhs_number))
      ELSE Finished("sync", self, input, BuildRequest(self, nhs_number, uuid4),
                    response, HandleResponse(self, nhs_number, response, today))

\* a blocking lookup that sends its request again after a failure
LookupPatientSyncRetries ==
    \E self \in clients, input \in LookupInputs, response \in Responses,
       today \in Todays :
        LET n == IF IsSuccess(response) THEN 1 ELSE 2 IN
        /\ ~Rejects(ReplaceSpaces(input))
        /\ transportCalls + n <= MaxCalls
        /\ transportCalls' = transportCalls + n
        /\ result' = lookup_patient_sync(self, input, Uuid4(Len(requestIDs) + n),
                                         response, today)
        /\ requestIDs' = requestIDs \o [i \in 1..n |-> Uuid4(Len(requestIDs) + i)]
        /\ UNCHANGED <<ageCall, served, vcall, clients, lastInit, inflight, openResources, parsed>>

\* lookup_patient_sync: the whole call, the calling thread being blocked
LookupPatientSync ==
    \E self \in clients, input \in LookupInputs :
        IF Rejects(ReplaceSpaces(input))
          THEN /\ result' = lookup_patient_sync(self, input, NextUuid4, NoResponse,
                                                CHOOSE t \in Todays : TRUE)
               /\ UNCHANGED <<ageCall, served, vcall, clients, lastInit, inflight,
                              transportCalls, openResources, requestIDs, parsed>>
          ELSE /\ transportCalls < MaxCalls
               /\ transportCalls' = transportCalls + 1
               /\ openResources' = Exit(Enter(openResources))
               /\ \E response \in Responses, today \in Todays :
                     result' = lookup_patient_sync(self, input, NextUuid4,
                                                   response, today)
               /\ requestIDs' = Append(requestIDs, result'.request.headers.XRequestID)
               /\ UNCHANGED <<ageCall, served, vcall, clients, lastInit, inflight, parsed>>

\* lookup_patient up to `await client.get(...)`: the call raises at once, or
\* sends its request and is suspended
LookupPatientStart ==
    \E self \in clients, input \in LookupInputs :
        LET nhs_number == ReplaceSpaces(input) IN
        IF Rejects(nhs_number)
          THEN /\ result' = Finished("async", self, input, NoRequest, NoResponse,
                                     InvalidOutcome(nhs_number))
               /\ UNCHANGED <<ageCall, served, vcall, clients, lastInit, inflight,
                              transportCalls, openResources, requestIDs, parsed>>
          ELSE LET request == BuildRequestAsync(self, nhs_number, NextUuid4) IN
               /\ transportCalls < MaxCalls
               /\ Cardinality(inflight) < MaxInflight
               /\ transportCalls' = transportCalls + 1
               /\ openResources' = Enter(openResources)
               /\ requestIDs' = Append(requestIDs, request.headers.XRequestID)
               /\ inflight' = inflight \cup
                      {[self |-> self, input |-> input, nhs_number |-> nhs_number,
                        request |-> request]}
               /\ UNCHANGED <<ageCall, served, vcall, clients, lastInit, parsed, result>>

\* a suspended call that goes on with the identifier of the lookup that
\* finished last
LookupPatientResumeShared ==
    \E call \in inflight, response \in Responses, today \in Todays :
        /\ inflight' = inflight \ {call}
        /\ openResources' = Exit(openResources)
        /\ result' = Finished("async", call.self, call.input, call.request,
                              response,
                              HandleResponseAsync(call.self,
                                                  ReplaceSpaces(result.input),
                                                  response, today))
        /\ UNCHANGED <<ageCall, served, vcall, clients, lastInit, transportCalls, requestIDs,
                       parsed>>

\* a suspended call that goes on without closing its transport resource
LookupPatientResumeLeaks ==
    \E call \in inflight, response \in Responses, today \in Todays :
        /\ inflight' = inflight \ {call}
        /\ result' = Finished("async", call.self, call.input, call.request,
                              response,
                              HandleResponseAsync(call.self, call.nhs_number,
                                                  response, today))
        /\ UNCHANGED <<ageCall, served, vcall, clients, lastInit, transportCalls, openResources,
                       requestIDs, parsed>>

\* lookup_patient from the point where client.get returns or raises
LookupPatientResume ==
    \E call \in inflight, response \in Responses, today \in Todays :
        /\ inflight' = inflight \ {call}
        /\ openResources' = Exit(openResources)
        /\ result' = Finished("async", call.self, call.input, call.request,
                              response,
                              HandleResponseAsync(call.self, call.nhs_number,
                                                  response, today))
        /\ UNCHANGED <<ageCall, served, vcall, clients, lastInit, transportCalls, requestIDs,
                       parsed>>

\* a cancellation that hands over a record built from a document not yet
\* received in full
LookupPatientCancelPartial ==
    \E call \in inflight, today \in Todays :
        /\ inflight' = inflight \ {call}
        /\ openResources' = Exit(openResources)
        /\ result' = Finished("async", call.self, call.input, call.request,
                              NoResponse,
                              ParsePatientResponse(call.nhs_number, StandardDoc,
                                                   today))
        /\ UNCHANGED <<ageCall, served, vcall, clients, lastInit, transportCalls, requestIDs,
                       parsed>>

\* the task awaiting lookup_patient is cancelled: CancelledError is raised at
\* the await and the async with block exits
LookupPatientCancel ==
    \E call \in inflight :
        /\ inflight' = inflight \ {call}
        /\ openResources' = Exit(openResources)
        /\ result' = Finished("async", call.self, call.input, call.request,
                              NoResponse, Raised(Error("CancelledError", "")))
        /\ UNCHANGED <<ageCall, served, vcall, clients, lastInit, transportCalls, requestIDs,
                       parsed>>

\* a standalone call of the normaliser on a document
NoParse == [called |-> FALSE, nhs_number |-> <<>>, data |-> EmptyDoc,
            kind |-> "", error |-> NoError, record |-> NoRecord, steps |-> <<>>]

\* the normaliser applied to the arguments drawn
ParseCall ==
    /\ ~parsed.called
    /\ \E today \in Todays :
          LET o == ParsePatientResponse(parsed.nhs_number, parsed.data, today) IN
          parsed' = [called |-> TRUE, nhs_number |-> parsed.nhs_number,
                     data |-> parsed.data, kind |-> o.kind, error |-> o.error,
                     record |-> o.record, steps |-> o.steps]
    /\ UNCHANGED <<ageCall, served, vcall, clients, lastInit, inflight, transportCalls,
                   openResources, requestIDs, result>>

----------------------------------------------------------------------------
(* The agent of agent_main.py: the bearer check and the three handlers that
   look patients up *)

\* the class the handlers name for the failure of a restricted lookup
RestrictedPatientError == "RestrictedPatientError"

\* isinstance(e, cls) for the classes the except clauses name;
\* json.JSONDecodeError is a ValueError
IsInstance(e, cls) ==
    CASE cls = "Exception" -> TRUE
      [] cls = "ValueError" -> e.type \in {"ValueError", "JSONDecodeError"}
      [] OTHER -> e.type = cls

\* self.pds_client = PDSClient(environment=PDSEnvironment.SANDBOX)
AgentClient == PDSClientInit(SANDBOX, None, DefaultTimeout).self

\* NurseSimTriageAgent.lookup_patient: the finished lookup
lookup_patient(nhs_number, uuid4, response, today) ==
    lookup_patient_sync(AgentClient, nhs_number, uuid4, response, today)

\* the record a finished lookup returned, NoRecord when it raised or when
\* there was no lookup
RecordOf(lookup) ==
    IF lookup.done /\ lookup.kind = "record" THEN lookup.record ELSE NoRecord

\* an f-string of a fixed text followed by one value
FString(text, value) == [t |-> "fstring", v |-> <<text, value>>]

\* sub in s
Contains(s, sub) ==
    \E i \in 1..(Len(s) - Len(sub) + 1) : SubSeq(s, i, i + Len(sub) - 1) = sub

\* s.lower()
LowerStr(s) == [i \in DOMAIN s |-> Lower(s[i])]

\* get_response with the model loaded: the text, or the exception that the
\* tokenizer or model.generate raises
Generations ==
    {[raised |-> FALSE, text |-> <<"U", "R", "G", "E", "N", "T">>],
     [raised |-> FALSE, text |-> <<"M", "o", "n", "i", "t", "o", "r">>],
     [raised |-> TRUE, text |-> <<>>]}

_extract_triage_category(response) ==
    LET response_lower == LowerStr(response)
        Has(word) == Contains(response_lower, word)
    IN  IF Has(<<"i", "m", "m", "e", "d", "i", "a", "t", "e">>)
             \/ Has(<<"r", "e", "s", "u", "s", "c", "i", "t", "a", "t", "i", "o", "n">>)
          THEN "Immediate"
        ELSE IF Has(<<"v", "e", "r", "y", " ", "u", "r", "g", "e", "n", "t">>)
                  \/ Has(<<"e", "m", "e", "r", "g", "e", "n", "c", "y">>)
          THEN "Very Urgent"
        ELSE IF Has(<<"u", "r", "g", "e", "n", "t">>) THEN "Urgent"
        ELSE IF Has(<<"s", "t", "a", "n", "d", "a", "r", "d">>) THEN "Standard"
        ELSE IF Has(<<"n", "o", "n", "-", "u", "r", "g", "e", "n", "t">>)
                  \/ Has(<<"n", "o", "n", " ", "u", "r", "g", "e", "n", "t">>)
          THEN "Non-Urgent"
        ELSE "Standard"

_extract_recommended_action(response) ==
    LET Has(word) == Contains(LowerStr(response), word) IN
    IF Has(<<"m", "o", "n", "i", "t", "o", "r">>) THEN "Monitor patient closely"
    ELSE IF Has(<<"i", "m", "m", "e", "d", "i", "a", "t", "e">>)
              \/ Has(<<"u", "r", "g", "e", "n", "t">>)
      THEN "Immediate medical attention required"
    ELSE "Continue assessment and treatment as per protocol"

\* the dict process_task returns; a key it does not set is Absent
ResultDict(error, message, triage_category, assessment, recommended_action,
           patient) ==
    [error |-> error, message |-> message, triage_category |-> triage_category,
     assessment |-> assessment, recommended_action |-> recommended_action,
     patient |-> patient]

ModelStillLoading ==
    ResultDict(TextV("ModelStillLoading"),
               TextV("The agent is still warming up. Please retry in 30 seconds."),
               Absent, Absent, Absent, Absent)

InternalProcessingError ==
    ResultDict(TextV("Internal Processing Error"), Absent, TextV("Error"),
               Absent, Absent, Absent)

\* result["patient"]
PatientEntry(patient_info) ==
    DictV([nhs_number |-> patient_info.nhs_number,
           name |-> patient_info.full_name,
           age |-> patient_info.age,
           gender |-> patient_info.gender,
           gp_practice |-> patient_info.gp_practice_name])

\* the triage result without the patient entry
TriageResult(text, patient) ==
    ResultDict(Absent, Absent, TextV(_extract_triage_category(text)), StrV(text),
               TextV(_extract_recommended_action(text)), patient)

\* what the except clauses of the lookup print
PrintedFor(lookup) ==
    IF ~lookup.done \/ lookup.kind = "record" THEN Absent
    ELSE IF IsInstance(lookup.error, RestrictedPatientError)
      THEN FString("SECURITY ALERT: ", TextV(lookup.error.msg))
    ELSE FString("PDS lookup failed: ", TextV(lookup.error.msg))

\* lines 190-201: the lookup a task with an nhs_number makes; either except
\* clause leaves patient_info None
TaskLookup(nhs_number, uuid4, response, today) ==
    IF Truthy(nhs_number)
      THEN lookup_patient(nhs_number.v, uuid4, response, today)
      ELSE NoResult

\* a result whose patient entry passes on what is known of the patient when
\* the lookup failed
TaskResultForwards(lookup, generated) ==
    [result |->
        IF generated.raised THEN InternalProcessingError
        ELSE TriageResult(generated.text,
                 IF RecordOf(lookup).exists THEN PatientEntry(RecordOf(lookup))
                 ELSE IF lookup.done
                   THEN DictV([nhs_number |-> ReplaceSpaces(lookup.input),
                               name |-> None, age |-> None, gender |-> None,
                               gp_practice |-> None])
                 ELSE Absent),
     lookup |-> lookup,
     printed |-> PrintedFor(lookup)]

\* lines 203-231: the result once the lookup is over; an exception of
\* get_response ends in the outer handler
TaskResult(lookup, generated) ==
    [result |->
        IF generated.raised THEN InternalProcessingError
        ELSE TriageResult(generated.text,
                 IF RecordOf(lookup).exists THEN PatientEntry(RecordOf(lookup))
                 ELSE Absent),
     lookup |-> lookup,
     printed |-> PrintedFor(lookup)]

\* a process_task that forwards partial patient data
process_task_forwards(model, nhs_number, uuid4, response, today, generated) ==
    IF ~model
      THEN [result |-> ModelStillLoading, lookup |-> NoResult, printed |-> Absent]
      ELSE TaskResultForwards(TaskLookup(nhs_number, uuid4, response, today),
                              generated)

\* NurseSimTriageAgent.process_task: the dict returned, the lookup made and
\* the line printed; model is whether self.model is loaded, generated what
\* get_response does
process_task(model, nhs_number, uuid4, response, today, generated) ==
    IF ~model
      THEN [result |-> ModelStillLoading, lookup |-> NoResult, printed |-> Absent]
      ELSE TaskResult(TaskLookup(nhs_number, uuid4, response, today), generated)

\* a character outside ASCII: LATIN SMALL LETTER E WITH ACUTE
EAcute == "U+00E9"
NonAscii == {EAcute, ArabicNine}

\* secrets.compare_digest(a, b) on two str: TypeError unless both are ASCII
compare_digest(a, b) ==
    IF \E i \in DOMAIN a : a[i] \in NonAscii THEN [raised |-> TRUE, equal |-> FALSE]
    ELSE IF \E i \in DOMAIN b : b[i] \in NonAscii
      THEN [raised |-> TRUE, equal |-> FALSE]
    ELSE [raised |-> FALSE, equal |-> a = b]

\* how a dependency ends: it returns the token, or raises
Verified(token) ==
    [raised |-> FALSE, type |-> "", status |-> 0, detail |-> "", token |-> token]
HTTPException(status_code, detail) ==
    [raised |-> TRUE, type |-> "HTTPException", status |-> status_code,
     detail |-> detail, token |-> None]
TypeError ==
    [raised |-> TRUE, type |-> "TypeError", status |-> 0,
     detail |-> "comparing strings with non-ASCII characters is not supported",
     token |-> None]

\* the statuses with which HTTPBearer() refuses a request that has no bearer
\* credentials: 403 in the older releases of fastapi, 401 in the newer ones
NotAuthenticatedStatuses == {401, 403}

\* security = HTTPBearer(): the credentials of the Authorization header
HTTPBearer(credentials, not_authenticated) ==
    IF Truthy(credentials) THEN Verified(credentials)
    ELSE HTTPException(not_authenticated, "Not authenticated")

\* verify_api_key, api_key and hf_token being what os.environ.get returns
verify_api_key(api_key, hf_token, credentials) ==
    IF ~Truthy(api_key) /\ ~Truthy(hf_token)
      THEN HTTPException(403, "System misconfigured: No authentication keys set.")
      ELSE LET token == credentials.v
               first == IF Truthy(api_key) THEN compare_digest(token, api_key.v)
                        ELSE [raised |-> FALSE, equal |-> FALSE]
               second == IF Truthy(hf_token) THEN compare_digest(token, hf_token.v)
                         ELSE [raised |-> FALSE, equal |-> FALSE]
           IN  IF first.raised THEN TypeError
               ELSE IF first.equal THEN Verified(StrV(token))
               ELSE IF second.raised THEN TypeError
               ELSE IF second.equal THEN Verified(StrV(token))
               ELSE HTTPException(401, "Invalid authentication credentials")

\* dependencies=[Depends(verify_api_key)]: the bearer scheme, then the check
Depends(api_key, hf_token, credentials, not_authenticated) ==
    LET bearer == HTTPBearer(credentials, not_authenticated) IN
    IF bearer.raised THEN bearer
    ELSE verify_api_key(api_key, hf_token, credentials)

\* the status of the answer when a dependency raised: the HTTPException's
\* own, 500 for any other exception
StatusOf(raised) == IF raised.type = "HTTPException" THEN raised.status ELSE 500
DetailOf(raised) ==
    IF raised.type = "HTTPException" THEN raised.detail ELSE "Internal Server Error"

\* the answer of an endpoint
Answer(status, detail, body) == [status |-> status, detail |-> detail, body |-> body]

\* lines 381-399: the answer to a lookup that returned or raised
LookupAnswer(lookup) ==
    IF lookup.kind = "record"
      THEN Answer(200, "",
               DictV([nhs_number |-> lookup.record.nhs_number,
                      full_name |-> lookup.record.full_name,
                      date_of_birth |-> lookup.record.date_of_birth,
                      age |-> lookup.record.age,
                      gender |-> lookup.record.gender,
                      address |-> lookup.record.address,
                      gp_practice |-> lookup.record.gp_practice_name]))
    ELSE IF IsInstance(lookup.error, RestrictedPatientError)
      THEN Answer(403, "U+1F6AB ACCESS DENIED: Restricted Patient Record", Absent)
    ELSE IF IsInstance(lookup.error, "ValueError")
      THEN Answer(400, lookup.error.msg, Absent)
    ELSE Answer(500, "Internal Server Error", Absent)

\* what a handler hands back: its answer or values, and the lookup it made
Handled(answer, lookup) == [answer |-> answer, lookup |-> lookup]

\* POST /lookup-patient: the answer and the lookup made
api_lookup_patient(nhs_number, uuid4, response, today) ==
    Handled(LookupAnswer(lookup_patient(nhs_number, uuid4, response, today)),
            lookup_patient(nhs_number, uuid4, response, today))

\* the four values the UI handler returns
UiOutput(age, gender, pmh_context, status_msg) ==
    [age |-> age, gender |-> gender, pmh_context |-> pmh_context,
     status_msg |-> status_msg]

\* the demographics the UI falls back to
DefaultDemographics(status_msg) ==
    UiOutput(IntV(45), TextV("Male"), TextV(""), status_msg)

\* lines 409-417: the values for a lookup that returned or raised
LookupOutput(lookup) ==
    IF lookup.kind = "record"
      THEN UiOutput(lookup.record.age, lookup.record.gender,
                    FString("Registered GP: ", lookup.record.gp_practice_name),
                    FString("U+2705 Verified: ", lookup.record.full_name))
    ELSE IF IsInstance(lookup.error, RestrictedPatientError)
      THEN DefaultDemographics(TextV("U+1F6AB ACCESS DENIED: Restricted Record"))
    ELSE DefaultDemographics(FString("U+274C Lookup failed: ",
                                     TextV(lookup.error.msg)))

\* lookup_patient_ui: the values returned and the lookup made
lookup_patient_ui(nhs_no, uuid4, response, today) ==
    IF ~Truthy(nhs_no)
      THEN Handled(DefaultDemographics(TextV("Please enter an NHS Number.")),
                   NoResult)
      ELSE Handled(LookupOutput(lookup_patient(nhs_no.v, uuid4, response, today)),
                   lookup_patient(nhs_no.v, uuid4, response, today))

\* the keys of the environment and the tokens presented
KeyA == <<"k", "e", "y", "-", "A">>
KeyAccented == <<"c", "l", EAcute>>
TokenB == <<"h", "f", "_", "B">>
WrongToken == <<"w", "r", "o", "n", "g">>

ApiKeys == {None, StrV(<<>>), StrV(KeyA), StrV(KeyAccented)}
HfTokens == {None, StrV(<<>>), StrV(TokenB)}
\* Absent: no Authorization header, or one that is not a bearer token
Credentials == {Absent, StrV(KeyA), StrV(TokenB), StrV(KeyAccented), StrV(WrongToken)}

\* the nhs_number of a task, of a lookup request and of the UI's text box
TaskNhsNumbers == {None, StrV(Nhs9000000017), StrV(Nhs1234567890)}
RequestNhsNumbers == {StrV(n) : n \in LookupInputs}
UiNhsNumbers == {None, StrV(<<>>)} \cup RequestNhsNumbers

\* the registry's answers to the lookup of a task
TaskResponses ==
    {Response(200, TRUE, StandardDoc),
     Response(200, TRUE, Doc(Meta(ListV(<<Label(TextV("R"))>>)), StandardName,
                             StrV(Dob19800101), StrV(Female), Absent, Absent)),
     Response(200, TRUE, Doc(Absent, StandardName, IntV(19800101), StrV(Female),
                             Absent, Absent)),
     Response(404, FALSE, EmptyDoc),
     NoResponse}

PROCESS_TASK == "/process-task"
LOOKUP_PATIENT == "/lookup-patient"
LOOKUP_PATIENT_UI == "lookup_patient_ui"

NoServed ==
    [handler |-> "", api_key |-> None, hf_token |-> None, credentials |-> Absent,
     not_authenticated |-> 403, model |-> FALSE, nhs_number |-> None,
     response |-> NoResponse, today |-> CHOOSE t \in Todays : TRUE,
     generated |-> [raised |-> TRUE, text |-> <<>>],
     done |-> FALSE, ran |-> FALSE, verified |-> None,
     answer |-> Answer(0, "", Absent),
     result |-> ResultDict(Absent, Absent, Absent, Absent, Absent, Absent),
     out |-> UiOutput(Absent, Absent, Absent, Absent), printed |-> Absent]

\* the requests handed to the agent. Without credentials the status is the
\* fastapi release's; with credentials the release makes no difference
ApiRequests(handler) ==
    {[NoServed EXCEPT !.handler = handler, !.api_key = x[1], !.hf_token = x[2],
                      !.credentials = x[3], !.not_authenticated = x[4]] :
        x \in {y \in ApiKeys \X HfTokens \X Credentials \X NotAuthenticatedStatuses :
                  y[3] = Absent \/ y[4] = NoServed.not_authenticated}}

ProcessTaskRequests ==
    {[s EXCEPT !.model = m, !.nhs_number = n, !.response = r, !.generated = g] :
        s \in ApiRequests(PROCESS_TASK), m \in BOOLEAN, n \in TaskNhsNumbers,
        r \in TaskResponses, g \in Generations}

LookupPatientRequests ==
    {[s EXCEPT !.nhs_number = n, !.response = r] :
        s \in ApiRequests(LOOKUP_PATIENT), n \in RequestNhsNumbers,
        r \in Responses}

UiRequests ==
    {[NoServed EXCEPT !.handler = LOOKUP_PATIENT_UI, !.nhs_number = n,
                      !.response = r] :
        n \in UiNhsNumbers, r \in Responses}

\* what a handler's lookup leaves behind in the transport: nothing when there
\* was no lookup or the validator stopped it
AfterLookup(lookup) ==
    IF lookup.done /\ lookup.requests = 1
      THEN /\ transportCalls' = transportCalls + 1
           /\ openResources' = Exit(Enter(openResources))
           /\ requestIDs' = Append(requestIDs, lookup.request.headers.XRequestID)
           /\ result' = lookup
    ELSE IF lookup.done
      THEN /\ result' = lookup
           /\ UNCHANGED <<transportCalls, openResources, requestIDs>>
    ELSE UNCHANGED <<transportCalls, openResources, requestIDs, result>>

\* a request the dependency refuses: the handler does not run
Refused(raised) ==
    /\ served' = [served EXCEPT !.done = TRUE,
                     !.answer = Answer(StatusOf(raised), DetailOf(raised), Absent)]
    /\ UNCHANGED <<transportCalls, openResources, requestIDs, result>>

\* lines 371-373: the 503 branch compares the message with
\* "ModelStillLoading", which is the error, so the dict is returned with 200
TaskAnswer(task_result) ==
    IF task_result.error # Absent
         /\ Get(task_result.message) = TextV("ModelStillLoading")
      THEN Answer(503, task_result.message.v, Absent)
      ELSE Answer(200, "", Absent)

\* the task handler has run
TaskReplied(token, r) ==
    /\ served' = [served EXCEPT !.done = TRUE, !.ran = TRUE, !.verified = token,
                                !.result = r.result, !.printed = r.printed,
                                !.answer = TaskAnswer(r.result)]
    /\ AfterLookup(r.lookup)

\* the lookup handler has run
LookupReplied(token, r) ==
    /\ served' = [served EXCEPT !.done = TRUE, !.ran = TRUE, !.verified = token,
                                !.answer = r.answer]
    /\ AfterLookup(r.lookup)

\* the UI handler has run
UiReplied(r) ==
    /\ served' = [served EXCEPT !.done = TRUE, !.ran = TRUE, !.out = r.answer]
    /\ AfterLookup(r.lookup)

\* the dependency of the request being served
DependsServed ==
    Depends(served.api_key, served.hf_token, served.credentials,
            served.not_authenticated)

\* the dependency, then the handler
Guarded(dep, Handler(_)) == IF dep.raised THEN Refused(dep) ELSE Handler(dep.token)

\* POST /process-task: the dependency, then agent.process_task(task.dict())
ApiProcessTask ==
    /\ ~served.done
    /\ served.handler = PROCESS_TASK
    /\ transportCalls < MaxCalls
    /\ Guarded(DependsServed,
               LAMBDA token :
                   TaskReplied(token,
                       process_task(served.model, served.nhs_number, NextUuid4,
                                    served.response, served.today,
                                    served.generated)))
    /\ UNCHANGED <<vcall, clients, lastInit, inflight, parsed, ageCall>>

\* POST /lookup-patient: the dependency, then the handler
ApiLookupPatient ==
    /\ ~served.done
    /\ served.handler = LOOKUP_PATIENT
    /\ transportCalls < MaxCalls
    /\ Guarded(DependsServed,
               LAMBDA token :
                   LookupReplied(token,
                       api_lookup_patient(served.nhs_number.v, NextUuid4,
                                          served.response, served.today)))
    /\ UNCHANGED <<vcall, clients, lastInit, inflight, parsed, ageCall>>

\* the UI's lookup button: lookup_patient_ui(nhs_no)
LookupPatientUi ==
    /\ ~served.done
    /\ served.handler = LOOKUP_PATIENT_UI
    /\ transportCalls < MaxCalls
    /\ UiReplied(lookup_patient_ui(served.nhs_number, NextUuid4, served.response,
                                   served.today))
    /\ UNCHANGED <<vcall, clients, lastInit, inflight, parsed, ageCall>>

----------------------------------------------------------------------------
(* Specifications *)

\* the clients a run of lookups starts with: PDSClient objects that
\* construction returns
LookupClients ==
    { PDSClientInit(SANDBOX, None, DefaultTimeout).self,
      PDSClientInit(SANDBOX, TextV(""), DefaultTimeout).self,
      PDSClientInit(INTEGRATION, TextV("test-token"), 5).self }

InitLookups ==
    /\ inflight = {}
    /\ transportCalls = 0
    /\ openResources = 0
    /\ requestIDs = <<>>
    /\ result = NoResult

\* lookups on clients that exist, as many as the bound allows
Init ==
    /\ vcall = NoCall
    /\ parsed = NoParse
    /\ lastInit = NoInit
    /\ InitLookups
    /\ ageCall = NoAge
    /\ served = NoServed
    /\ clients \in {S \in SUBSET LookupClients : Cardinality(S) = MaxClients}

Next ==
    \/ LookupPatientSync
    \/ LookupPatientStart
    \/ LookupPatientResume
    \/ LookupPatientCancel

Spec == Init /\ [][Next]_vars

\* construction of clients
InitConstruct ==
    /\ vcall = NoCall
    /\ parsed = NoParse
    /\ lastInit = NoInit
    /\ InitLookups
    /\ ageCall = NoAge
    /\ served = NoServed
    /\ clients = {}

SpecConstruct == InitConstruct /\ [][Construct]_vars

\* standalone calls of the validator
InitValidate ==
    /\ vcall \in {[NoCall EXCEPT !.input = s] : s \in ValidatorInputs}
    /\ parsed = NoParse
    /\ lastInit = NoInit
    /\ InitLookups
    /\ ageCall = NoAge
    /\ served = NoServed
    /\ clients = {}

SpecValidate == InitValidate /\ [][ValidateCall]_vars

\* standalone calls of the normaliser
InitParse ==
    /\ vcall = NoCall
    /\ parsed \in {[NoParse EXCEPT !.nhs_number = n, !.data = d] :
                       n \in {Nhs9000000009, Nhs9000000017}, d \in Documents}
    /\ lastInit = NoInit
    /\ InitLookups
    /\ ageCall = NoAge
    /\ served = NoServed
    /\ clients = {}

SpecParse == InitParse /\ [][ParseCall]_vars

\* standalone calls of _calculate_age
InitAge ==
    /\ vcall = NoCall
    /\ parsed = NoParse
    /\ lastInit = NoInit
    /\ InitLookups
    /\ served = NoServed
    /\ clients = {}
    /\ ageCall \in {[NoAge EXCEPT
                        !.date_of_birth = FormatDate(b.year, b.month, b.day),
                        !.today = t] : b \in BirthDates, t \in AgeTodays}

SpecAge == InitAge /\ [][CalculateAge]_vars

\* requests to the agent, whose client is the sandbox client
InitAgent ==
    /\ vcall = NoCall
    /\ parsed = NoParse
    /\ lastInit = NoInit
    /\ InitLookups
    /\ ageCall = NoAge
    /\ clients = {AgentClient}
    /\ served \in ProcessTaskRequests \cup LookupPatientRequests \cup UiRequests

NextAgent ==
    \/ ApiProcessTask
    \/ ApiLookupPatient
    \/ LookupPatientUi

SpecAgent == InitAgent /\ [][NextAgent]_vars

----------------------------------------------------------------------------
(* Properties *)

\* s without the characters of C
Without(s, C) == SelectSeq(s, LAMBDA c : c \notin C)

\* the document's meta.security list holds a label whose code is "R"
CarriesR(doc) ==
    /\ doc.meta.t = "dict"
    /\ doc.meta.v.security.t = "list"
    /\ \E i \in DOMAIN doc.meta.v.security.v :
          doc.meta.v.security.v[i].v.code = TextV("R")

\* the last lookup got a 2xx response whose body is a document
GotDocument == result.done /\ IsSuccess(result.response) /\ result.response.json

ExtractionSteps == {"name", "birthDate", "gender", "address", "generalPractitioner"}

\* C1: a lookup, blocking or suspending, that gets a 2xx response whose
\* document carries the security code "R" fails with RestrictedPatientError
\* and returns no record.
C1_RestrictedRaisesDedicatedError ==
    (GotDocument /\ CarriesR(result.response.doc))
        => /\ result.kind = "error"
           /\ result.error.type = "RestrictedPatientError"
           /\ result.record = NoRecord

\* C2: no PatientDemographics with is_restricted = True exists: every record
\* a lookup returns has the flag false, and a document that carries "R" and
\* reaches the check ends in an error without a record.
C2_NoRestrictedRecord ==
    /\ result.kind = "record" => result.record.is_restricted = FALSE
    /\ (GotDocument /\ CarriesR(result.response.doc)) => result.record = NoRecord

\* C2 witness: a lookup of a restricted document stopped at the security
\* check, before the record was constructed
C2_Witness ==
    /\ GotDocument
    /\ CarriesR(result.response.doc)
    /\ result.error = RestrictedError
    /\ result.steps[Len(result.steps)] = "security"

\* C3: on a document that carries "R" the normaliser raises before any of
\* the extraction steps (name, birth date, gender, address, GP) has run.
C3_SecurityCheckFirst ==
    (parsed.called /\ CarriesR(parsed.data))
        => \A i \in DOMAIN parsed.steps : parsed.steps[i] \notin ExtractionSteps

\* two documents that differ at most in name, address, birth date, gender
\* and GP data
SameButDemographics(d, e) ==
    /\ d.meta = e.meta
    /\ d.deceasedBoolean = e.deceasedBoolean
    /\ d.deceasedDateTime = e.deceasedDateTime

\* C4: the error a lookup raises for a restricted document is the same for
\* every restricted document that differs from it only in the demographic
\* fields, looked up under the same identifier.
C4_RestrictedErrorIndependent ==
    (GotDocument /\ CarriesR(result.response.doc))
        => \A r \in Responses, today \in Todays :
              (IsSuccess(r) /\ r.json /\ SameButDemographics(r.doc, result.response.doc))
                  => HandleResponse(result.self, ReplaceSpaces(result.input), r,
                                    today).error = result.error

\* C5: the error raised for a restricted record, identifier N, has the
\* message "Access to patient record N is RESTRICTED".
C5_ErrorCarriesIdentifier ==
    (/\ GotDocument
     /\ CarriesR(result.response.doc)
     /\ result.kind = "error"
     /\ result.steps # <<>>
     /\ result.steps[Len(result.steps)] = "security")
        => result.error.msg = "Access to patient record "
                                \o ToStr(Without(result.input, {" "}))
                                \o " is RESTRICTED"

\* C6: a lookup, blocking or suspending, of an identifier the validator
\* rejects raises the invalid-number error, and its step sends no request and
\* enters no httpx client.
C6_InvalidNoTransport ==
    [][(result' # result /\ ~validate_nhs_number(result'.input))
          => /\ result'.kind = "error"
             /\ result'.error.type = "ValueError"
             /\ result'.error.msg
                  = "Invalid NHS number: " \o ToStr(Without(result'.input, {" "}))
             /\ result'.requests = 0
             /\ transportCalls' = transportCalls
             /\ openResources' = openResources
             /\ inflight' = inflight]_vars

\* C6 witness: the suspending lookup has rejected 1234567890 before any
\* request was sent
C6_Witness ==
    /\ result.done
    /\ result.mode = "async"
    /\ result.input = Nhs1234567890
    /\ result.kind = "error"
    /\ transportCalls = 0

\* the check digit of ten decimal digits: 11 less the weighted sum modulo 11
CheckOf(d) ==
    11 - ((10 * DigitValue(d[1]) + 9 * DigitValue(d[2]) + 8 * DigitValue(d[3])
           + 7 * DigitValue(d[4]) + 6 * DigitValue(d[5]) + 5 * DigitValue(d[6])
           + 4 * DigitValue(d[7]) + 3 * DigitValue(d[8]) + 2 * DigitValue(d[9]))
          % 11)

TenAsciiDigits(s) == Len(s) = 10 /\ \A i \in 1..10 : s[i] \in AsciiDigits

\* C7: on ten digits the validator answers true iff the check, 11 counted as
\* 0, equals the tenth digit; a check of 10 is rejected whatever the tenth
\* digit; 9000000009, 9000000017, 9000000025 pass, 9000000000 and 9000000008
\* do not.
C7_ChecksumRule ==
    (vcall.called /\ TenAsciiDigits(vcall.input))
        => /\ vcall.result
                = (LET check == IF CheckOf(vcall.input) = 11 THEN 0
                                ELSE CheckOf(vcall.input)
                   IN  check # 10 /\ check = DigitValue(vcall.input[10]))
           /\ (vcall.input \in {Nhs9000000009, Nhs9000000017, Nhs9000000025}
                => vcall.result)
           /\ (vcall.input \in {Nhs9000000000, Nhs9000000008} => ~vcall.result)

\* C7 witness: ten digits whose check is 10 have been rejected
C7_Witness ==
    /\ vcall.called
    /\ TenAsciiDigits(vcall.input)
    /\ CheckOf(vcall.input) = 10
    /\ ~vcall.result

\* C8 as stated: the validator answers for a string as it answers for the
\* string without its whitespace characters (space, tab, newline).
C8_WhitespaceInsensitive ==
    vcall.called
        => vcall.result = validate_nhs_number(Without(vcall.input, Whitespace))

\* C8 amended: the validator answers for a string as it answers for the
\* string without its space characters (U+0020), wherever they stand.
C8_SpaceInsensitive ==
    vcall.called
        => vcall.result = validate_nhs_number(Without(vcall.input, {" "}))

\* C8 witness: "900 000 0009" has been accepted
C8_Witness ==
    vcall.called /\ vcall.input = Nhs900_000_0009 /\ vcall.result

\* C9: a string that, its whitespace removed, is not exactly ten ASCII
\* digits is answered false, and the checksum arithmetic does not run.
C9_MalformedRejected ==
    (vcall.called /\ ~TenAsciiDigits(Without(vcall.input, Whitespace)))
        => ~vcall.result /\ ~vcall.checksum

\* C10: PDSClient(...) for int or prod without a token raises ValueError and
\* leaves no client; no client of int or prod without a token exists; for
\* sandbox without a token, and for int with a token, it returns the client,
\* which keeps the token.
C10_TokenRequired ==
    /\ \A c \in clients :
          c.environment # SANDBOX => c.access_token # None
    /\ (lastInit.called /\ lastInit.environment # SANDBOX
            /\ lastInit.access_token = None)
          => /\ lastInit.raised
             /\ lastInit.type = "ValueError"
             /\ lastInit.msg = "Access token required for " \o lastInit.environment
                    \o " environment. Use PDSEnvironment.SANDBOX for unauthenticated testing."
             /\ \A c \in clients :
                   ~(c.environment = lastInit.environment
                        /\ c.access_token = lastInit.access_token)
    /\ (lastInit.called
            /\ \/ lastInit.environment = SANDBOX /\ lastInit.access_token = None
               \/ lastInit.environment = INTEGRATION
                    /\ lastInit.access_token = TextV("test-token"))
          => /\ ~lastInit.raised
             /\ \E c \in clients :
                   /\ c.environment = lastInit.environment
                   /\ c.access_token = lastInit.access_token
                   /\ c.timeout = lastInit.timeout

\* C10 witness: the construction of a production client without a token has
\* raised
C10_Witness ==
    /\ lastInit.called
    /\ lastInit.environment = PRODUCTION
    /\ lastInit.access_token = None
    /\ lastInit.raised

----------------------------------------------------------------------------
(* Properties of the requests *)

\* the lookups that have sent a request: the last finished one, and the
\* suspended ones
Senders ==
    {[self |-> result.self, input |-> result.input, request |-> result.request] :
        x \in {r \in {result} : r.done /\ r.requests = 1}}
      \cup {[self |-> c.self, input |-> c.input, request |-> c.request] :
              c \in inflight}

\* C11: every request of a lookup is a GET to the base URL of the client's
\* environment, followed by the one resource path, "/" and the identifier
\* without its spaces, which the validator accepts; the three environments
\* have three different base URLs.
C11_RequestTarget ==
    /\ \A e1 \in PDSEnvironment, e2 \in PDSEnvironment :
          BASE_URLS(e1) = BASE_URLS(e2) => e1 = e2
    /\ \A s \in Senders :
          /\ s.request.method = "GET"
          /\ s.request.url =
                BASE_URLS(s.self.environment)
                    \o "/personal-demographics/FHIR/R4/Patient" \o "/"
                    \o ToStr(Without(s.input, {" "}))
          /\ validate_nhs_number(Without(s.input, {" "}))

\* a finished lookup on the integration client, of an identifier written
\* with spaces, and a suspended one on a sandbox client
C11_Witness ==
    /\ result.done /\ result.requests = 1
    /\ result.self.environment = INTEGRATION
    /\ result.input = Nhs900_000_0009
    /\ \E c \in inflight : c.self.environment = SANDBOX

\* the client was constructed with a token that is not empty
HasToken(self) == self.access_token.t = "text" /\ self.access_token.v # ""

\* C12: every request carries Accept: application/fhir+json and an
\* X-Request-ID, and carries Authorization exactly when the client holds a
\* token, the value being "Bearer " followed by that token.
C12_RequestHeaders ==
    \A s \in Senders :
        LET h == s.request.headers IN
        /\ h.Accept = "application/fhir+json"
        /\ \E i \in DOMAIN requestIDs : requestIDs[i] = h.XRequestID
        /\ (h.Authorization # Absent) <=> HasToken(s.self)
        /\ HasToken(s.self) =>
              h.Authorization = TextV("Bearer " \o s.self.access_token.v)
        /\ (s.self.environment = SANDBOX /\ s.self.access_token = None) =>
              h.Authorization = Absent

\* requests of a client with a token and of a sandbox client without one
C12_Witness ==
    /\ \E s \in Senders :
          /\ HasToken(s.self)
          /\ s.request.headers.Authorization = TextV("Bearer test-token")
    /\ \E s \in Senders :
          /\ s.self.environment = SANDBOX /\ s.self.access_token = None
          /\ s.request.headers.Authorization = Absent

\* C13: no two requests carry the same X-Request-ID, whichever the clients
\* and however the lookups interleave, and a client holds no request ID.
C13_RequestIDFresh ==
    /\ \A i \in DOMAIN requestIDs, j \in DOMAIN requestIDs :
          requestIDs[i] = requestIDs[j] => i = j
    /\ \A s \in Senders, t \in Senders :
          s.request.headers.XRequestID = t.request.headers.XRequestID => s = t
    /\ \A self \in clients :
          DOMAIN self = {"environment", "access_token", "timeout", "base_url"}

\* two requests of one client for one identifier, one lookup still suspended
C13_Witness ==
    /\ Len(requestIDs) = 2
    /\ \E s \in Senders, t \in Senders :
          /\ s # t
          /\ s.self = t.self
          /\ s.request.url = t.request.url

----------------------------------------------------------------------------
(* Properties of the lookups *)

\* the last finished lookup sent a request and client.get returned a response
GotResponse == result.done /\ result.requests = 1 /\ result.response.status # 0

\* C14: a lookup of a valid identifier whose response has a status outside
\* 200..299 raises an error that holds that status and that body; no step
\* of the normaliser runs and no record is returned.
C14_StatusErrorRaised ==
    (GotResponse /\ result.response.status \notin 200..299) =>
        /\ validate_nhs_number(result.input)
        /\ result.kind = "error"
        /\ result.error.type = "HTTPStatusError"
        /\ result.error.status = result.response.status
        /\ result.error.body = Body(result.response.json, result.response.doc)
        /\ result.steps = <<>>
        /\ result.record = NoRecord

\* a suspending lookup answered 500 with a whole patient document as body
C14_Witness ==
    /\ GotResponse
    /\ result.mode = "async"
    /\ result.response = Response(500, TRUE, StandardDoc)
    /\ result.error.type = "HTTPStatusError"

\* C15: a lookup hands exactly one request to the transport when the
\* validator accepts its identifier and none otherwise, whatever the
\* outcome; a lookup that follows a lookup of the same identifier on the
\* same client sends a request of its own.
C15_OneRequestPerLookup ==
    [][ /\ (inflight' = inflight /\ result' # result) =>
              /\ result'.done
              /\ transportCalls' - transportCalls =
                    IF validate_nhs_number(result'.input) THEN 1 ELSE 0
              /\ result'.requests = transportCalls' - transportCalls
              /\ (result.done /\ result.requests = 1 /\ result'.requests = 1
                    /\ result'.input = result.input /\ result'.self = result.self) =>
                    result'.request # result.request
        /\ (inflight' # inflight /\ result' = result) =>
              /\ \E c \in inflight' :
                    /\ c \notin inflight
                    /\ inflight' = inflight \cup {c}
                    /\ validate_nhs_number(c.input)
              /\ transportCalls' = transportCalls + 1
        /\ (inflight' # inflight /\ result' # result) =>
              /\ \E c \in inflight :
                    /\ inflight' = inflight \ {c}
                    /\ result'.request = c.request
              /\ result'.requests = 1
              /\ transportCalls' = transportCalls
        /\ Len(requestIDs') = transportCalls'
      ]_vars

\* two requests have been sent, the second by a blocking lookup that ended
\* with the restricted error
C15_Witness ==
    /\ transportCalls = 2
    /\ result.done /\ result.mode = "sync" /\ result.requests = 1
    /\ result.request.headers.XRequestID = requestIDs[2]
    /\ result.error = RestrictedError
    /\ inflight = {}

\* C16: a transport resource is open only for a lookup that passed the
\* validator and is suspended at its request; every lookup that has returned
\* or raised has closed the resource it opened.
C16_ResourceReleased ==
    /\ openResources = Cardinality(inflight)
    /\ \A c \in inflight : validate_nhs_number(c.input)
    /\ \A c \in inflight : ~(result.done /\ result.request = c.request)
    /\ inflight = {} => openResources = 0

\* two lookups opened a resource, the last one was cancelled, none is open
C16_Witness ==
    /\ transportCalls = 2
    /\ result.done /\ result.error.type = "CancelledError"
    /\ inflight = {}
    /\ openResources = 0

\* C17: the normaliser runs only on the body of a response that came back
\* whole with a 2xx status; a lookup that is cancelled, or whose client.get
\* raises, runs no step of the normaliser and yields no record, and a
\* suspended lookup has no outcome.
C17_NoPartialRecord ==
    /\ (result.done /\ result.steps # <<>>) =>
          /\ result.response.status \in 200..299
          /\ result.response.json
    /\ (result.done /\ result.requests = 1 /\ result.response = NoResponse) =>
          /\ result.error.type \in {"CancelledError", "TransportError"}
          /\ result.kind = "error"
          /\ result.steps = <<>>
          /\ result.record = NoRecord
    /\ \A c \in inflight :
          ~(result.done /\ result.request.headers.XRequestID
                              = c.request.headers.XRequestID)

\* a suspending lookup was cancelled after it had sent its request
C17_Witness ==
    /\ result.done /\ result.mode = "async" /\ result.requests = 1
    /\ result.error.type = "CancelledError"
    /\ result.record = NoRecord

\* the outcome of a lookup of input answered by response, from these two
\* and the date alone
OwnOutcome(input, response, today) ==
    LET nhs_number == Without(input, {" "}) IN
    IF ~validate_nhs_number(nhs_number)
      THEN Raised(InvalidNumberError(nhs_number))
    ELSE IF response.status = 0
      THEN Raised(Error("TransportError", "request failed"))
    ELSE IF response.status \notin 200..299
      THEN Raised(HTTPStatusError(response))
    ELSE IF ~response.json
      THEN Raised(Error("JSONDecodeError", "body is not JSON"))
    ELSE ParsePatientResponse(nhs_number, response.doc, today)

C19_SyncAsyncSame ==
    (result.done /\ result.mode = "async"
        /\ result.error.type # "CancelledError") =>
        \E today \in Todays :
            [result EXCEPT !.mode = "sync"] =
                lookup_patient_sync(result.self, result.input,
                                    result.request.headers.XRequestID,
                                    result.response, today)

\* a suspending lookup has returned a record
C19_Witness ==
    /\ result.done /\ result.mode = "async"
    /\ result.kind = "record" /\ result.record.exists
    /\ result.requests = 1

\* the document has no meta, no meta.security, or an empty meta.security
NoLabels(doc) ==
    \/ doc.meta = Absent
    \/ /\ doc.meta.t = "dict"
       /\ doc.meta.v.security \in {Absent, ListV(<<>>)}

\* C20: a lookup of a valid identifier that gets a 2xx response whose
\* document has no security labels returns a record whose nhs_number is the
\* identifier without its spaces and whose is_restricted is false.
C20_UnlabelledSucceeds ==
    (GotDocument /\ NoLabels(result.response.doc)) =>
        /\ result.kind = "record"
        /\ result.record.exists
        /\ result.record.nhs_number = Without(result.input, {" "})
        /\ ~result.record.is_restricted

----------------------------------------------------------------------------
(* Properties of the normaliser *)

\* the standalone call of the normaliser returned a record
Returned == parsed.called /\ parsed.kind = "record"

\* C21 as stated: a record returned by the normaliser does not hold the
\* raw document.
C21_RawDocumentDiscarded ==
    Returned => parsed.record.raw_response = None

\* C21: every record the normaliser returns holds, in raw_response, the
\* whole document it was built from.
C21_RecordKeepsRawDocument ==
    Returned => parsed.record.raw_response = parsed.data

\* a record built from a document with a name and an address, which the
\* record's raw_response still holds
C21_Witness ==
    /\ Returned
    /\ parsed.data.name # Absent
    /\ parsed.data.address # Absent
    /\ parsed.record.raw_response.address = parsed.data.address

\* the document of the call has a list of name entries that is not empty
HasNames == parsed.data.name.t = "list" /\ parsed.data.name.v # <<>>

\* the entry the name is taken from: the first whose use is "official", the
\* first of all when there is none
UsedName ==
    LET entries == parsed.data.name.v
        official == {i \in DOMAIN entries : entries[i].use = TextV("official")}
    IN  IF official = {} THEN entries[1]
        ELSE entries[CHOOSE i \in official : \A j \in official : i <= j]

GivenOfUsed ==
    IF UsedName.given = Absent THEN <<>> ELSE Join(<<" ">>, UsedName.given.v)
FamilyOfUsed ==
    IF UsedName.family = Absent THEN <<>> ELSE UsedName.family.v

\* what C24 says of the three name fields but for the last clause
NameFieldsAsStated ==
    /\ parsed.record.given_name = StrV(GivenOfUsed)
    /\ parsed.record.family_name = StrV(FamilyOfUsed)
    /\ parsed.record.full_name =
          StrV(Strip(GivenOfUsed \o <<" ">> \o FamilyOfUsed))

\* C24 as stated: ... and whenever given and family name are both non-empty
\* the full name is "<given> <family>".
C24_FullNameWheneverNonEmpty ==
    (Returned /\ HasNames) =>
        /\ NameFieldsAsStated
        /\ (GivenOfUsed # <<>> /\ FamilyOfUsed # <<>>) =>
              parsed.record.full_name = StrV(GivenOfUsed \o <<" ">> \o FamilyOfUsed)

\* C24: the name comes from the first "official" entry, else from the first
\* entry; given name is the given parts joined by single spaces, full name
\* is given name, a space and family name, stripped; it is
\* "<given> <family>" whenever both are non-empty, the given name does not
\* begin with whitespace and the family name does not end with whitespace.
C24_NameNormalized ==
    (Returned /\ HasNames) =>
        /\ NameFieldsAsStated
        /\ (/\ GivenOfUsed # <<>> /\ FamilyOfUsed # <<>>
            /\ Head(GivenOfUsed) \notin Whitespace
            /\ FamilyOfUsed[Len(FamilyOfUsed)] \notin Whitespace) =>
              parsed.record.full_name = StrV(GivenOfUsed \o <<" ">> \o FamilyOfUsed)

\* a record built from two entries, the second being the official one,
\* with two given parts
C24_Witness ==
    /\ Returned /\ HasNames
    /\ Len(parsed.data.name.v) = 2
    /\ parsed.data.name.v[2].use = TextV("official")
    /\ parsed.record.given_name = StrV(Jayne \o <<" ">> \o Jane)
    /\ parsed.record.full_name = StrV(Jayne \o <<" ">> \o Jane \o <<" ">> \o Smythe)

\* s is YYYY-MM-DD, ten characters, and names a day of the calendar
IsCalendarDateString(s) ==
    /\ Len(s) = 10
    /\ \A i \in {1, 2, 3, 4, 6, 7, 9, 10} : s[i] \in AsciiDigits
    /\ s[5] = "-" /\ s[8] = "-"
    /\ DateValid(DigitsValue(SubSeq(s, 1, 4)), DigitsValue(SubSeq(s, 6, 7)),
                 DigitsValue(SubSeq(s, 9, 10)))

\* the document has no "R" label and a meta the normaliser can read
Unrestricted(doc) == doc.meta.t \in {"absent", "dict"} /\ ~CarriesR(doc)

\* the other fields have the types of the standard document
OthersWellTyped(doc) == doc.gender.t \in {"absent", "str"}

\* C26: for an unrestricted document whose birthDate is absent, empty, not
\* of the form YYYY-MM-DD, not a calendar date or not a string, the
\* normaliser returns a record whose age is absent and raises nothing.
C26_MalformedBirthDateTolerated ==
    (/\ parsed.called
     /\ Unrestricted(parsed.data) /\ OthersWellTyped(parsed.data)
     /\ \/ parsed.data.birthDate.t # "str"
        \/ ~IsCalendarDateString(parsed.data.birthDate.v)) =>
        /\ parsed.kind = "record"
        /\ parsed.error = NoError
        /\ parsed.record.age = None

\* C27: a gender string gives the record that string with its first letter
\* upper-cased; a document without gender gives the record None.
C27_GenderNormalized ==
    Returned =>
        /\ (parsed.data.gender.t = "str" /\ parsed.data.gender.v # <<>>) =>
              parsed.record.gender =
                  StrV(<<Upper(Head(parsed.data.gender.v))>>
                          \o Tail(parsed.data.gender.v))
        /\ parsed.data.gender = Absent => parsed.record.gender = None

\* the deceasedDateTime key holds a value
HasDeceasedDateTime(doc) == doc.deceasedDateTime \notin {Absent, None}

\* C28: the is_deceased of a returned record is True exactly when
\* deceasedBoolean is true or deceasedDateTime holds a value, and False
\* when both keys are absent.
C28_DeceasedFlag ==
    Returned =>
        /\ parsed.record.is_deceased \in {BoolV(TRUE), BoolV(FALSE)}
        /\ parsed.record.is_deceased = BoolV(TRUE) <=>
              \/ parsed.data.deceasedBoolean = BoolV(TRUE)
              \/ HasDeceasedDateTime(parsed.data)
        /\ (parsed.data.deceasedBoolean = Absent
               /\ parsed.data.deceasedDateTime = Absent) =>
              parsed.record.is_deceased = BoolV(FALSE)

\* a record whose document has deceasedBoolean false and a deceasedDateTime
C28_Witness ==
    /\ Returned
    /\ parsed.data.deceasedBoolean = BoolV(FALSE)
    /\ HasDeceasedDateTime(parsed.data)
    /\ parsed.record.is_deceased = BoolV(TRUE)

----------------------------------------------------------------------------
(* Properties of the empty token *)

\* C30: PDSClient(...) for int or prod with the token "" raises the
\* ValueError a missing token raises and leaves no client; every int or prod
\* client that exists holds a non-empty token, and the headers of its
\* requests carry Authorization: Bearer <token>.
C30_EmptyTokenIsNoToken ==
    /\ (lastInit.called /\ lastInit.environment # SANDBOX
            /\ lastInit.access_token = TextV(""))
          => /\ lastInit.raised
             /\ lastInit.type = "ValueError"
             /\ lastInit.msg = "Access token required for " \o lastInit.environment
                    \o " environment. Use PDSEnvironment.SANDBOX for unauthenticated testing."
    /\ \A c \in clients :
          c.environment # SANDBOX =>
              /\ c.access_token.t = "text"
              /\ c.access_token.v # ""
              /\ \A id \in 1..MaxCalls :
                    GetHeaders(c, Uuid4(id)).Authorization
                        = TextV("Bearer " \o c.access_token.v)

\* the construction of an integration client with the token "" has raised
\* while an integration client with a token exists
C30_Witness ==
    /\ lastInit.called
    /\ lastInit.environment = INTEGRATION
    /\ lastInit.access_token = TextV("")
    /\ lastInit.raised
    /\ \E c \in clients : c.environment = INTEGRATION

----------------------------------------------------------------------------
(* Properties of the age *)

\* the birth date and the current date of the standalone call, read off the
\* string by position
BirthYear == DigitsValue(SubSeq(ageCall.date_of_birth, 1, 4))
BirthMonth == DigitsValue(SubSeq(ageCall.date_of_birth, 6, 7))
BirthDay == DigitsValue(SubSeq(ageCall.date_of_birth, 9, 10))

\* today's (month, day) is strictly before the birth (month, day)
BirthdayAhead ==
    \/ ageCall.today.month < BirthMonth
    \/ ageCall.today.month = BirthMonth /\ ageCall.today.day < BirthDay

\* the birth (month, day) is the day after today's, within the year
BirthdayTomorrow ==
    \/ BirthMonth = ageCall.today.month /\ BirthDay = ageCall.today.day + 1
    \/ /\ ageCall.today.day = DaysInMonth(ageCall.today.year, ageCall.today.month)
       /\ BirthMonth = ageCall.today.month + 1
       /\ BirthDay = 1

\* the birth date is today or earlier
BornByToday ==
    \/ BirthYear < ageCall.today.year
    \/ BirthYear = ageCall.today.year /\ ~BirthdayAhead

\* C25: for a well-formed birth date, _calculate_age returns current year
\* minus birth year, minus one iff today's (month, day) is strictly before
\* the birth (month, day): the plain difference on the birthday, one less
\* the day before it, and never a negative age for a birth date not after
\* today.
C25_AgeComputation ==
    ageCall.called =>
        /\ ageCall.age = IntV(ageCall.today.year - BirthYear
                                - (IF BirthdayAhead THEN 1 ELSE 0))
        /\ (BirthMonth = ageCall.today.month /\ BirthDay = ageCall.today.day) =>
              ageCall.age.v = ageCall.today.year - BirthYear
        /\ BirthdayTomorrow =>
              ageCall.age.v = ageCall.today.year - BirthYear - 1
        /\ BornByToday => ageCall.age.v >= 0

\* the age of someone born on 1 March 1980, computed on 29 February 2024:
\* the birthday is the next day
C25_Witness ==
    /\ ageCall.called
    /\ ageCall.date_of_birth = FormatDate(1980, 3, 1)
    /\ ageCall.today = [year |-> 2024, month |-> 2, day |-> 29]
    /\ BirthdayTomorrow
    /\ ageCall.age = IntV(43)

----------------------------------------------------------------------------
(* Properties of the agent *)

\* the lookup of the served request ended with the failure of a restricted
\* record
RestrictedFailure ==
    /\ result.done
    /\ result.kind = "error"
    /\ CarriesR(result.response.doc)
    /\ result.error = RestrictedError

\* C22: when the lookup of a request fails for a restricted record,
\* /lookup-patient answers 403 with the fixed access-denied message and the
\* UI handler returns the fixed access-denied status with the default
\* demographics.
C22_RestrictedIsAccessDenied ==
    (served.done /\ served.ran /\ RestrictedFailure) =>
        /\ served.handler = LOOKUP_PATIENT =>
              served.answer =
                  Answer(403, "U+1F6AB ACCESS DENIED: Restricted Patient Record",
                         Absent)
        /\ served.handler = LOOKUP_PATIENT_UI =>
              served.out = DefaultDemographics(
                               TextV("U+1F6AB ACCESS DENIED: Restricted Record"))

\* a key of the environment that is set and not empty
Configured(key) == key \notin {None, StrV(<<>>)}

\* the request presents a token equal to a configured key
PresentsConfiguredKey ==
    /\ served.credentials # Absent
    /\ \/ Configured(served.api_key) /\ served.credentials = served.api_key
       \/ Configured(served.hf_token) /\ served.credentials = served.hf_token

\* a request to one of the two endpoints has been answered
ApiServed == served.done /\ served.handler \in {PROCESS_TASK, LOOKUP_PATIENT}

\* the handler runs only on the token verify_api_key returned, and not at
\* all without a configured key or a matching token
HandlerOnlyAfterVerify ==
    ApiServed =>
        /\ served.ran => (served.verified = served.credentials /\ PresentsConfiguredKey)
        /\ ~served.ran => served.verified = None

\* C23: the handlers of /process-task and /lookup-patient run only after
\* verify_api_key returned; it returns the presented token iff the token
\* equals the configured API_KEY or HF_TOKEN.
C23_FailClosedAuth ==
    /\ HandlerOnlyAfterVerify
    /\ ApiServed => (served.verified = served.credentials <=> PresentsConfiguredKey)

\* process_task has run for the served request
TaskServed == served.done /\ served.handler = PROCESS_TASK /\ served.ran

\* the lookup of the served task raised
TaskLookupFailed == result.done /\ result.kind = "error"

\* C29: the result of process_task has a patient entry only if the lookup
\* returned a record, whose fields it then holds; when the lookup raised,
\* for a restricted record or anything else, the result has no patient
\* entry, every value in it comes from the generated text, and the
\* assessment is the text get_response returned.
C29_NoPatientWithoutRecord ==
    TaskServed =>
        /\ served.result.patient # Absent =>
              /\ result.done /\ result.kind = "record"
              /\ served.result.patient =
                    DictV([nhs_number |-> result.record.nhs_number,
                           name |-> result.record.full_name,
                           age |-> result.record.age,
                           gender |-> result.record.gender,
                           gp_practice |-> result.record.gp_practice_name])
        /\ TaskLookupFailed =>
              /\ served.result.patient = Absent
              /\ served.result.message = Absent
              /\ served.result.error \in {Absent, TextV("Internal Processing Error")}
              /\ served.result.assessment \in {Absent, StrV(served.generated.text)}
              /\ served.result.triage_category \in
                    {TextV(c) : c \in {"Immediate", "Very Urgent", "Urgent",
                                       "Standard", "Non-Urgent", "Error"}}
              /\ served.result.recommended_action \in
                    {Absent} \cup
                    {TextV(a) : a \in {"Monitor patient closely",
                                       "Immediate medical attention required",
                                       "Continue assessment and treatment as per protocol"}}
              /\ ~served.generated.raised =>
                    /\ served.result.error = Absent
                    /\ served.result.assessment = StrV(served.generated.text)

\* a task whose lookup failed for a restricted record, answered with the
\* assessment and no patient entry
C29_Witness ==
    /\ TaskServed
    /\ RestrictedFailure
    /\ served.result.patient = Absent
    /\ served.result.assessment = StrV(<<"U", "R", "G", "E", "N", "T">>)
    /\ served.result.triage_category = TextV("Urgent")

====
